---- MODULE Spec2Model ----
(***************************************************************************)
(* Model of the payment service of paymentd (package                       *)
(* pkg/service/payment): the payment transaction log of one Payment, the   *)
(* registry of intent workers and the intent pipeline of                   *)
(* Service.handleIntent (PRE select, POST fan-out, COMMIT goroutine).      *)
(*                                                                         *)
(* The model follows the intents made on one Payment, one Intent* call     *)
(* after the other; the goroutines of a call run concurrently with each    *)
(* other, with the caller, with worker registration and with the           *)
(* cancellation of the service context.                                    *)
(*                                                                         *)
(* Goroutines are modelled as interleaved steps.  A select statement is    *)
(* one step that takes a case whose channel is ready; a time.After case    *)
(* is taken only when no other case is ready: the timer is created when    *)
(* the select is entered, and a goroutine parked in a select is resumed    *)
(* by the first channel operation that reaches it.                         *)
(***************************************************************************)
EXTENDS Integers, Sequences, FiniteSets, TLC

\* ---------------------------------------------------------------- bounds
MaxWorkers == 2
MaxLog == 2
MaxCreate == 2
MaxTime == 3
MaxVersions == 2
MaxInit == 2
IDBits == 3
MaxStrLen == 2
MaxIdle == 2
MaxErrors == 2

Workers == 1..MaxWorkers
Creates == 1..MaxCreate
Times == 1..MaxTime

\* the number of workers registered in total, the notifier included
MaxRegistered == MaxWorkers + 1

\* ------------------------------------------------------------- constants
PaymentStatusNone == "none"
PaymentStatusOpen == "open"
PaymentStatusCancelled == "cancelled"
PaymentStatusPaid == "paid"
PaymentStatusAuthorized == "authorized"

Statuses == {PaymentStatusNone, PaymentStatusOpen, PaymentStatusCancelled,
             PaymentStatusPaid, PaymentStatusAuthorized}

PaymentMethodStatusActive == "active"
PaymentMethodStatusInactive == "inactive"
PaymentMethodStatusDisabled == "disabled"

MethodStatuses == {PaymentMethodStatusActive, PaymentMethodStatusInactive,
                   PaymentMethodStatusDisabled}

\* the outcomes of payment_method.PaymentMethodByIDDB: the method with its
\* current status, or an error
MethodNotFound == "notfound"
MethodLookups == MethodStatuses \cup {MethodNotFound}

Intents == {"IntentOpen", "IntentCancel", "IntentPaid", "IntentAuthorized"}

\* error values; Nil is the nil error
Nil == "nil"
ErrIntentNotAllowed == "intent not allowed"
ErrIntentTimeout == "intent timeout"
ErrPaymentMethodInactive == "payment method inactive"
ErrPaymentMethodDisabled == "payment method disabled"
ErrPaymentMethodNotFound == "payment method not found"
ErrCanceled == "context canceled"
ErrDB == "database error"
ErrDBLockTimeout == "lock wait timeout"
ErrDuplicateIdent == "duplicate ident in payment"
ErrPaymentCallbackConfig == "callback config error"
\* the errors of package paypal_rest
ErrDatabase == "paypal: database error"
ErrInternal == "paypal: internal error"
ErrHTTP == "paypal: HTTP error"
ErrProvider == "paypal: provider error"
\* package stripe
ErrConfigNotFound == "config not found"
ErrQuery == "stripe: query error"
ErrPaymentTransactionNotFound == "payment transaction not found"
ErrPaymentMethodConflict == "payment method project mismatch"
Pending == "pending"

\* what a PreIntentWorker, PostIntentWorker or CommitIntentWorker may emit
WorkerErrs == {"veto"}
WorkerResults == WorkerErrs \cup {Nil}

\* the amount of the Payment (immutable, set at creation)
Amounts == {7}

\* the nil *PaymentTransaction
NilTx == [Status |-> PaymentStatusNone, Amount |-> 0, Timestamp |-> 0]

VARIABLES
    txLog,          \* payment_transaction rows of the Payment, oldest first
    ctxDone,        \* s.ctx is cancelled
    preIntents,     \* len(s.preIntents)
    postIntents,    \* len(s.postIntents)
    commitIntents,  \* len(s.commitIntents)
    mIntent,        \* number of read locks held on s.mIntent
    pc,             \* position of the Intent* call
    p,              \* the *payment.Payment the call was given
    call,           \* the intent and the deadline situation of the call
    paymentTx,      \* the tentative PaymentTransaction of the call
    outcome,        \* how the call left validation / the PRE phase
    done,           \* the done channel of the PRE phase
    c,              \* the buffered result channel of the PRE phase
    preStarted,     \* number of PreIntent goroutines started
    preReturned,    \* number of PreIntent goroutines that have sent or left
    postStarted,    \* number of PostIntentWorkers called
    postDrained,    \* number of PostIntent channels received from or closed
    commit,         \* the commit channel
    commitG,        \* state of the commit goroutine
    commitSpawned,  \* number of CommitIntent goroutines the fan-out started
    commitInvoked,  \* per worker, the transaction of each CommitIntent call
    commitPanic,    \* the commit handle panicked (close of closed channel)
    commitErr,      \* per worker, what its CommitIntent returned
    notified,       \* the notifications delivered to the callback URL
    warnLog,        \* the Warn records the call has logged
    result,         \* what the Intent* call returned
    persisted,      \* the caller has stored the returned transaction
    pc2,            \* position of the Intent* call of a second caller
    p2,             \* the *payment.Payment the second caller loaded
    call2,          \* the intent of the second caller
    result2,        \* what the Intent* call of the second caller returned
    create,         \* per CreatePayment call: position, Ident and result
    dbTx,           \* per CreatePayment call: its DB transaction
    payRow,         \* the payment row of the stored Payment exists
    payTxs,         \* the payment_transaction rows of the stored Payment
    payVersions,    \* its numbers of payment_config / payment_metadata rows
    current,        \* what the last Service.PaymentTransaction returned
    storeErr,       \* what the last call on the stored Payment returned
    providerTxs,    \* the committed PayPal transactions of the Payment
    initCall,       \* position and DB transaction of the InitPayment call
    initHist,       \* what each InitPayment call on the Payment returned
    doInit,         \* the background goroutine Driver.doInit
    errsRecv,       \* the goroutine receiving from the errors channel
    idCoder,        \* s.idCoder: prime and XOR of the payment ID encoder
    idIn,           \* the payment.PaymentID given to EncodedPaymentID
    idEnc,          \* what EncodedPaymentID returned
    idDec,          \* what DecodedPaymentID returned for idEnc
    req,            \* the CreatePaymentRequest last signed
    baseStr,        \* its SignatureBaseString
    stripeRows,     \* the committed rows of provider_stripe_config
    stripePending,  \* the rows inserted in the open DB transaction
    cfgQuery,       \* the last config query: method, Tx or DB, outcome
    cfgResult,      \* what the last config query returned
    postDone,       \* the channels the PostIntentWorkers returned, each with
                    \* its worker and its receiving goroutine
    postWaited,     \* wg.Wait() of the POST drain has returned
    initRace,       \* the concurrent InitPayment calls on one Payment
    raceRows,       \* the committed PayPal transactions of that Payment
    raceDispatched,  \* number of doInit goroutines started for it
    baseURL,        \* the url.URL that d.baseURL points to
    urlCall,         \* the redirectURLs calls, one per Payment
    cgCommit,       \* the commit channel of the intent: none, open or closed
    cgWaiter,       \* the goroutine selecting on commit and the timeout
    cgSenders,      \* the goroutines go func(w) { errC <- w.CommitIntent(..) }
    cgDrain,        \* the goroutine receiving from errC
    cgWg,           \* the counter of the sync.WaitGroup
    cgWarned,        \* number of Warn records the receiving goroutine logged
    lkCall,         \* the handleIntent calls, one per Payment
    lkReaders,      \* number of read locks held on s.mIntent
    lkWriter,       \* the Register call: none, waiting in Lock() or holding it
    lkWorkers,       \* len(s.preIntents), len(s.postIntents), len(s.commitIntents)
    bgSvc,          \* position of NewService
    bgTask,         \* position of the handleBackground goroutine
    bgWait,         \* counter of server.Wait
    bgIdle,         \* idle connections of the shared transport s.tr
    bgReleased      \* server.Wait.Wait() has returned in the shutdown

vars == <<txLog, ctxDone, preIntents, postIntents, commitIntents,
          mIntent, pc, p, call, paymentTx, outcome, done, c, preStarted,
          preReturned, postStarted, postDrained, commit, commitG,
          commitSpawned, commitInvoked, commitPanic, commitErr, notified,
          warnLog, result, persisted, pc2, p2, call2, result2, create,
          dbTx, payRow, payTxs, payVersions, current, storeErr, providerTxs,
          initCall, initHist, doInit, errsRecv, idCoder, idIn, idEnc, idDec,
          req, baseStr, stripeRows, stripePending, cfgQuery, cfgResult,
          postDone, postWaited,
          initRace, raceRows, raceDispatched,
          baseURL, urlCall,
          cgCommit, cgWaiter, cgSenders, cgDrain, cgWg, cgWarned,
          lkCall, lkReaders, lkWriter, lkWorkers,
          bgSvc, bgTask, bgWait, bgIdle, bgReleased>>

svcVars == <<ctxDone, preIntents, postIntents, commitIntents>>
storeVars == <<txLog>>
raceVars == <<pc2, p2, call2, result2>>
createVars == <<create, dbTx>>
payStoreVars == <<payRow, payTxs, payVersions, current, storeErr>>
paypalVars == <<providerTxs, initCall, initHist, doInit, errsRecv>>
codecVars == <<idCoder, idIn, idEnc, idDec>>
sigVars == <<req, baseStr>>
stripeVars == <<stripeRows, stripePending, cfgQuery, cfgResult>>
drainVars == <<postDone, postWaited>>
initRaceVars == <<initRace, raceRows, raceDispatched>>
urlVars == <<baseURL, urlCall>>
commitGoVars == <<cgCommit, cgWaiter, cgSenders, cgDrain, cgWg, cgWarned>>
lockVars == <<lkCall, lkReaders, lkWriter, lkWorkers>>
shutdownVars == <<bgSvc, bgTask, bgWait, bgIdle, bgReleased>>
extVars == <<payStoreVars, paypalVars, codecVars, sigVars, stripeVars,
             drainVars,
    initRaceVars,
    urlVars,
    commitGoVars,
    lockVars,
    shutdownVars>>
otherVars == <<raceVars, createVars, extVars>>

\* ------------------------------------------------------------- helpers
NoResult == [tx |-> NilTx, commit |-> FALSE, err |-> Pending]
NoCall == [intent |-> "none", pastDeadline |-> FALSE]
NoPayment == [Status |-> PaymentStatusNone, Amount |-> 0, Callback |-> FALSE]
NoInvocations == [w \in Workers |-> <<>>]
NoErrs == [w \in Workers |-> Pending]
NoCreate == [pc |-> "idle", ident |-> "none", err |-> Pending,
             insErr |-> "none", exist |-> "none", dbFail |-> "none"]
NoDBTx == [state |-> "none", written |-> {}]
NoCoder == [prime |-> 0, xor |-> 0]
NoID == [ProjectID |-> 0, PaymentID |-> 0]
NoRequest == [ProjectKey |-> "", Ident |-> "", Amount |-> 0, Subunits |-> 0,
              Currency |-> "", Country |-> "", PaymentMethodId |-> 0,
              Locale |-> "", CallbackURL |-> "", ReturnURL |-> "",
              Metadata |-> <<>>, Timestamp |-> 0, Nonce |-> ""]
NoConfig == [ProjectID |-> 0, MethodKey |-> "", Created |-> 0,
             SecretKey |-> ""]
NoQuery == [ProjectID |-> 0, MethodKey |-> "", via |-> "none", out |-> "none"]
InitCallers == 1..MaxInit
NoRaceCall == [pc |-> "idle", ts |-> 0, res |-> Pending]
ConfiguredBaseURL == [Path |-> "", RawQuery |-> ""]
NoURLCall == [pc |-> "idle", ReturnURL |-> "", CancelURL |-> "", err |-> Pending]
\* the services of the process, each made by one call of NewService
Services == {1, 2}
LockCallers == {1, 2}
NoLockCall == [pc |-> "idle", path |-> "none", rlocks |-> 0, runlocks |-> 0]
NoWriter == [state |-> "none", kind |-> "none"]
NoInitCall == [pc |-> "idle", tx |-> "none"]
NoDoInit == [pc |-> "none", err |-> Nil, next |-> "none", recorded |-> FALSE,
             reported |-> FALSE, closed |-> FALSE]

\* payment.PaymentTransactionCurrentTx: the latest row, or not found
CurrentStatus(log) ==
    IF Len(log) = 0 THEN PaymentStatusNone ELSE log[Len(log)].Status

\* payment_method.Method.Active / Disabled
Active(st) == st = PaymentMethodStatusActive
Disabled(st) == st = PaymentMethodStatusDisabled

\* payment.Payment.NewTransaction; the Timestamp is the time of the call in
\* nanoseconds, which is not 0
NewTransaction(pay, status) ==
    [Status |-> status, Amount |-> pay.Amount, Timestamp |-> 1]

TargetStatus(intent) ==
    CASE intent = "IntentOpen" -> PaymentStatusOpen
      [] intent = "IntentCancel" -> PaymentStatusCancelled
      [] intent = "IntentPaid" -> PaymentStatusPaid
      [] intent = "IntentAuthorized" -> PaymentStatusAuthorized

\* mutant: every intent keeps the amount of the Payment
IntentTransaction_KeepsAmount(pay, intent) ==
    NewTransaction(pay, TargetStatus(intent))

\* the PaymentTransaction each Intent* method builds
IntentTransaction(pay, intent) ==
    LET t == NewTransaction(pay, TargetStatus(intent)) IN
    CASE intent = "IntentOpen" -> [t EXCEPT !.Amount = t.Amount * (-1)]
      [] intent = "IntentCancel" -> [t EXCEPT !.Amount = 0]
      [] intent = "IntentPaid" -> t
      [] intent = "IntentAuthorized" -> [t EXCEPT !.Amount = 0]

\* the status check at the head of each Intent* method
IntentStatusOk(pay, intent, processable) ==
    IF intent = "IntentOpen" THEN processable
    ELSE pay.Status = PaymentStatusOpen

\* mutant: every intent requires an Active payment method
IntentMethodErr_ActiveOnly(intent, st) ==
    IF st = MethodNotFound THEN ErrPaymentMethodNotFound
    ELSE IF ~Active(st) THEN ErrPaymentMethodInactive ELSE Nil

\* the payment method check of each Intent* method; Nil when it passes
IntentMethodErr(intent, st) ==
    IF st = MethodNotFound THEN ErrPaymentMethodNotFound
    ELSE IF intent = "IntentOpen"
         THEN (IF ~Active(st) THEN ErrPaymentMethodInactive ELSE Nil)
         ELSE (IF Disabled(st) THEN ErrPaymentMethodDisabled ELSE Nil)

Failure(e) == [tx |-> NilTx, commit |-> FALSE, err |-> e]

\* ---------------------------------------------------------------- Init
Init ==
    /\ txLog = <<>>
    /\ ctxDone = FALSE
    /\ preIntents = 0
    /\ postIntents = 0
    /\ commitIntents = 1
    /\ mIntent = 0
    /\ pc = "idle"
    /\ p = NoPayment
    /\ call = NoCall
    /\ paymentTx = NilTx
    /\ outcome = "none"
    /\ done = "none"
    /\ c = <<>>
    /\ preStarted = 0
    /\ preReturned = 0
    /\ postStarted = 0
    /\ postDrained = 0
    /\ commit = "none"
    /\ commitG = "none"
    /\ commitSpawned = 0
    /\ commitInvoked = NoInvocations
    /\ commitPanic = FALSE
    /\ commitErr = NoErrs
    /\ notified = <<>>
    /\ warnLog = <<>>
    /\ result = NoResult
    /\ persisted = FALSE
    /\ pc2 = "idle"
    /\ p2 = NoPayment
    /\ call2 = NoCall
    /\ result2 = NoResult
    /\ create = [t \in Creates |-> NoCreate]
    /\ dbTx = [t \in Creates |-> NoDBTx]
    /\ payRow = FALSE
    /\ payTxs = {}
    /\ payVersions = [config |-> 0, metadata |-> 0]
    /\ current = [tx |-> NilTx, err |-> Pending]
    /\ storeErr = Pending
    /\ providerTxs = <<>>
    /\ initCall = NoInitCall
    /\ initHist = <<>>
    /\ doInit = NoDoInit
    /\ errsRecv = "none"
    /\ idCoder = NoCoder
    /\ idIn = NoID
    /\ idEnc = NoID
    /\ idDec = NoID
    /\ req = NoRequest
    /\ baseStr = ""
    /\ stripeRows = {}
    /\ stripePending = {}
    /\ cfgQuery = NoQuery
    /\ cfgResult = [cfg |-> NoConfig, err |-> Pending]
    /\ postDone = <<>>
    /\ postWaited = FALSE
    /\ initRace = [t \in InitCallers |-> NoRaceCall]
    /\ raceRows = {}
    /\ raceDispatched = 0
    /\ baseURL = ConfiguredBaseURL
    /\ urlCall = [t \in InitCallers |-> NoURLCall]
    /\ cgCommit = "none"
    /\ cgWaiter = "none"
    /\ cgSenders = <<>>
    /\ cgDrain = "none"
    /\ cgWg = 0
    /\ cgWarned = 0
    /\ lkCall = [t \in LockCallers |-> NoLockCall]
    /\ lkReaders = 0
    /\ lkWriter = NoWriter
    /\ lkWorkers = [pre |-> 0, post |-> 0, commit |-> 1]
    /\ bgSvc = [s \in Services |-> "new"]
    /\ bgTask = [s \in Services |-> "none"]
    /\ bgWait = 0
    /\ bgIdle = [s \in Services |-> 0]
    /\ bgReleased = FALSE

preVars == <<done, c, preStarted, preReturned>>
postVars == <<postStarted, postDrained>>
logVars == <<commitErr, notified, warnLog>>
commitVars == <<commit, commitG, commitSpawned, commitInvoked, commitPanic,
                logVars>>
callVars == <<pc, p, call, paymentTx, outcome, preVars, postVars, commitVars,
              result, persisted>>

\* ------------------------------------------------- service lifecycle
Registered == preIntents + postIntents + commitIntents

\* Workers are registered at startup and between intents, not while an
\* intent of the Payment is running or its commit is pending.
\* Service.RegisterPreIntentWorker (takes the write lock)
RegisterPreIntentWorker ==
    /\ mIntent = 0
    /\ pc \in {"idle", "loaded"}
    /\ preIntents < MaxWorkers
    /\ Registered < MaxRegistered
    /\ preIntents' = preIntents + 1
    /\ UNCHANGED <<otherVars, storeVars, ctxDone, postIntents, commitIntents, mIntent,
                   callVars>>

\* Service.RegisterPostIntentWorker
RegisterPostIntentWorker ==
    /\ mIntent = 0
    /\ pc \in {"idle", "loaded"}
    /\ postIntents < MaxWorkers
    /\ Registered < MaxRegistered
    /\ postIntents' = postIntents + 1
    /\ UNCHANGED <<otherVars, storeVars, ctxDone, preIntents, commitIntents, mIntent,
                   callVars>>

\* Service.RegisterCommitIntentWorker
RegisterCommitIntentWorker ==
    /\ mIntent = 0
    /\ pc \in {"idle", "loaded"}
    /\ commitIntents < MaxWorkers
    /\ Registered < MaxRegistered
    /\ commitIntents' = commitIntents + 1
    /\ UNCHANGED <<otherVars, storeVars, ctxDone, preIntents, postIntents, mIntent,
                   callVars>>

\* the service context is cancelled
CancelContext ==
    /\ ~ctxDone
    /\ ctxDone' = TRUE
    /\ UNCHANGED <<otherVars, storeVars, preIntents, postIntents, commitIntents, mIntent,
                   callVars>>

\* ------------------------------------------------------ the caller side
\* the caller loads the Payment; its Status is that of the latest
\* PaymentTransaction (Service.PaymentTransaction).  The next call starts
\* once the previous one has returned and its commit goroutine has ended.
LoadPayment(amount, callback) ==
    /\ pc \in {"idle", "done"}
    /\ commitG \in {"none", "dropped", "finished"}
    /\ pc' = "loaded"
    /\ p' = [Status |-> CurrentStatus(txLog), Amount |-> amount,
             Callback |-> callback]
    /\ call' = NoCall
    /\ paymentTx' = NilTx
    /\ outcome' = "none"
    /\ done' = "none"
    /\ c' = <<>>
    /\ preStarted' = 0
    /\ preReturned' = 0
    /\ postStarted' = 0
    /\ postDrained' = 0
    /\ commit' = "none"
    /\ commitG' = "none"
    /\ commitSpawned' = 0
    /\ commitInvoked' = NoInvocations
    /\ commitPanic' = FALSE
    /\ commitErr' = NoErrs
    /\ notified' = <<>>
    /\ warnLog' = <<>>
    /\ result' = NoResult
    /\ persisted' = FALSE
    /\ UNCHANGED <<otherVars, storeVars, svcVars, mIntent>>

\* Service.SetPaymentTransaction: the caller stores the returned transaction
SetPaymentTransaction ==
    /\ pc = "done"
    /\ result.err = Nil
    /\ result.tx # NilTx
    /\ ~persisted
    /\ Len(txLog) < MaxLog
    /\ txLog' = Append(txLog, result.tx)
    /\ persisted' = TRUE
    /\ UNCHANGED <<otherVars, svcVars, mIntent, pc, p, call, paymentTx, outcome,
                   preVars,
                   postVars, commitVars, result>>

\* --------------------------------------------------- the Intent* methods
\* an Intent* method returns without reaching handleIntent
IntentFails(e) ==
    /\ pc' = "done"
    /\ result' = Failure(e)
    /\ outcome' = "rejected"
    /\ UNCHANGED <<mIntent, paymentTx, preVars>>

\* handleIntent after the deadline check: the read lock is taken and, when
\* PreIntentWorkers are registered, done and c are made and one goroutine per
\* worker is started
HandleIntentRun(tx) ==
    /\ mIntent' = mIntent + 1
    /\ paymentTx' = tx
    /\ UNCHANGED result
    /\ IF preIntents > 0
       THEN /\ done' = "open"
            /\ c' = <<>>
            /\ preStarted' = preIntents
            /\ preReturned' = 0
            /\ pc' = "pre_wait"
            /\ UNCHANGED outcome
       ELSE /\ pc' = "post"
            /\ outcome' = "skipped"
            /\ UNCHANGED preVars

\* mutant: the deadline of the service context is not checked
HandleIntentEnter_NoDeadline(tx, pastDeadline) ==
    HandleIntentRun(tx)

\* handleIntent up to the PRE select, the deadline check first
HandleIntentEnter(tx, pastDeadline) ==
    IF pastDeadline
    THEN /\ pc' = "done"
         /\ result' = Failure(ErrIntentTimeout)
         /\ outcome' = "deadline"
         /\ paymentTx' = tx
         /\ UNCHANGED <<mIntent, preVars>>
    ELSE HandleIntentRun(tx)

\* IntentOpen / IntentCancel / IntentPaid / IntentAuthorized
Intent(intent, processable, meth, pastDeadline) ==
    /\ pc = "loaded"
    /\ call' = [intent |-> intent, pastDeadline |-> pastDeadline]
    /\ IF ~IntentStatusOk(p, intent, processable)
       THEN IntentFails(ErrIntentNotAllowed)
       ELSE IF IntentMethodErr(intent, meth) # Nil
       THEN IntentFails(IntentMethodErr(intent, meth))
       ELSE HandleIntentEnter(IntentTransaction(p, intent), pastDeadline)
    /\ UNCHANGED <<otherVars, storeVars, svcVars, p, postVars, commitVars, persisted>>

\* -------------------------------------------------- PreIntent goroutines
\* a PreIntentWorker sends a result on the buffered channel c (capacity 1)
\* and returns
PreIntentSend(e) ==
    /\ preReturned < preStarted
    /\ Len(c) < 1
    /\ c' = Append(c, e)
    /\ preReturned' = preReturned + 1
    /\ UNCHANGED <<otherVars, storeVars, svcVars, mIntent, pc, p, call, paymentTx,
                   outcome, done, preStarted, postVars, commitVars, result,
                   persisted>>

\* a PreIntentWorker sees done closed and returns without a result
PreIntentExit ==
    /\ preReturned < preStarted
    /\ done = "closed"
    /\ preReturned' = preReturned + 1
    /\ UNCHANGED <<otherVars, storeVars, svcVars, mIntent, pc, p, call, paymentTx,
                   outcome, done, c, preStarted, postVars, commitVars, result,
                   persisted>>

\* ------------------------------------------------- the PRE phase select
\* mutant: the cancellation of the service context is ignored
PreSelectDone_Ignored ==
    /\ pc = "pre_wait"
    /\ ctxDone
    /\ done' = "closed"
    /\ pc' = "post"
    /\ outcome' = "cancel"
    /\ UNCHANGED <<otherVars, storeVars, svcVars, mIntent, p, call, paymentTx, c,
                   preStarted, preReturned, postVars, commitVars, result,
                   persisted>>

\* case <-s.ctx.Done()
PreSelectDone ==
    /\ pc = "pre_wait"
    /\ ctxDone
    /\ done' = "closed"
    /\ mIntent' = mIntent - 1
    /\ pc' = "done"
    /\ result' = Failure(ErrCanceled)
    /\ outcome' = "cancel"
    /\ UNCHANGED <<otherVars, storeVars, svcVars, p, call, paymentTx, c, preStarted,
                   preReturned, postVars, commitVars, persisted>>

\* mutant: a received result does not abort the intent
PreSelectErr_Ignored ==
    /\ pc = "pre_wait"
    /\ Len(c) > 0
    /\ c' = Tail(c)
    /\ done' = "closed"
    /\ pc' = "post"
    /\ outcome' = "veto"
    /\ UNCHANGED <<otherVars, storeVars, svcVars, mIntent, p, call, paymentTx, preStarted,
                   preReturned, postVars, commitVars, result, persisted>>

\* case err := <-c
PreSelectErr ==
    /\ pc = "pre_wait"
    /\ Len(c) > 0
    /\ c' = Tail(c)
    /\ done' = "closed"
    /\ mIntent' = mIntent - 1
    /\ pc' = "done"
    /\ result' = Failure(Head(c))
    /\ outcome' = "veto"
    /\ UNCHANGED <<otherVars, storeVars, svcVars, p, call, paymentTx, preStarted,
                   preReturned, postVars, commitVars, persisted>>

\* mutant: the timeout of the PRE phase fails the intent
PreSelectTimeout_Aborts ==
    /\ pc = "pre_wait"
    /\ ~ctxDone
    /\ Len(c) = 0
    /\ done' = "closed"
    /\ mIntent' = mIntent - 1
    /\ pc' = "done"
    /\ result' = Failure(ErrIntentTimeout)
    /\ outcome' = "timeout"
    /\ UNCHANGED <<otherVars, storeVars, svcVars, p, call, paymentTx, c, preStarted,
                   preReturned, postVars, commitVars, persisted>>

\* case <-time.After(timeout)
PreSelectTimeout ==
    /\ pc = "pre_wait"
    /\ ~ctxDone
    /\ Len(c) = 0
    /\ done' = "closed"
    /\ pc' = "post"
    /\ outcome' = "timeout"
    /\ UNCHANGED <<otherVars, storeVars, svcVars, mIntent, p, call, paymentTx, c,
                   preStarted, preReturned, postVars, commitVars, result,
                   persisted>>

\* ------------------------------------------------------- the POST phase
\* mutant: the calling goroutine itself waits for the PostIntentWorkers
PostIntentPhase_Waits ==
    /\ pc = "post"
    /\ IF postIntents > 0 /\ postStarted = 0
       THEN /\ postStarted' = postIntents
            /\ postDrained' = 0
            /\ UNCHANGED pc
       ELSE /\ postDrained = postStarted
            /\ pc' = "commit"
            /\ UNCHANGED postVars
    /\ UNCHANGED <<otherVars, storeVars, svcVars, mIntent, p, call, paymentTx, outcome,
                   preVars, commitVars, result, persisted>>

\* every PostIntentWorker is called and hands back its channel; a goroutine
\* is started that receives one value from each channel
PostIntentPhase ==
    /\ pc = "post"
    /\ postStarted' = postIntents
    /\ postDrained' = 0
    /\ pc' = "commit"
    /\ UNCHANGED <<otherVars, storeVars, svcVars, mIntent, p, call, paymentTx, outcome,
                   preVars, commitVars, result, persisted>>

\* a PostIntentWorker sends a value on its channel; the drain goroutine
\* receives it and logs it when it is an error
PostIntentSend(e) ==
    /\ postDrained < postStarted
    /\ postDrained' = postDrained + 1
    /\ UNCHANGED <<otherVars, storeVars, svcVars, mIntent, pc, p, call, paymentTx,
                   outcome, preVars, postStarted, commitVars, result,
                   persisted>>

\* ----------------------------------------------------- the COMMIT phase
\* mutant: handleIntent stores the transaction itself
CommitPhase_Persists ==
    /\ pc = "commit"
    /\ IF commitIntents > 0
       THEN commit' = "open" /\ commitG' = "waiting"
       ELSE UNCHANGED <<commit, commitG>>
    /\ mIntent' = mIntent - 1
    /\ pc' = "done"
    /\ result' = [tx |-> paymentTx, commit |-> commitIntents > 0, err |-> Nil]
    /\ txLog' = IF Len(txLog) < MaxLog THEN Append(txLog, paymentTx) ELSE txLog
    /\ UNCHANGED <<otherVars, svcVars, p, call, paymentTx, outcome, preVars,
                   postVars,
                   commitSpawned, commitInvoked, commitPanic, logVars, persisted>>

\* the commit channel, the CommitIntentFunc and the commit goroutine are
\* created, the read lock is released and handleIntent returns
CommitPhase ==
    /\ pc = "commit"
    /\ IF commitIntents > 0
       THEN commit' = "open" /\ commitG' = "waiting"
       ELSE UNCHANGED <<commit, commitG>>
    /\ mIntent' = mIntent - 1
    /\ pc' = "done"
    /\ result' = [tx |-> paymentTx, commit |-> commitIntents > 0, err |-> Nil]
    /\ UNCHANGED <<otherVars, storeVars, svcVars, p, call, paymentTx, outcome, preVars,
                   postVars, commitSpawned, commitInvoked, commitPanic,
                   logVars, persisted>>

\* the caller invokes the CommitIntentFunc: close(commit); closing the
\* closed channel panics
InvokeCommit ==
    /\ pc = "done"
    /\ result.commit
    /\ ~commitPanic
    /\ IF commit = "open"
       THEN commit' = "closed" /\ UNCHANGED commitPanic
       ELSE commitPanic' = TRUE /\ UNCHANGED commit
    /\ UNCHANGED <<otherVars, storeVars, svcVars, mIntent, pc, p, call, paymentTx,
                   outcome, preVars, postVars, commitG, commitSpawned,
                   commitInvoked, logVars, result, persisted>>

\* mutant: the fan-out stops after the first CommitIntentWorker
CommitSelectCommit_FirstOnly ==
    /\ commitG = "waiting"
    /\ commit = "closed"
    /\ commitG' = "fanout"
    /\ commitSpawned' = 1
    /\ UNCHANGED <<otherVars, storeVars, svcVars, mIntent, pc, p, call, paymentTx,
                   outcome, preVars, postVars, commit, commitInvoked,
                   commitPanic, logVars, result, persisted>>

\* mutant: the commit channel is still served after the timeout
CommitSelectCommit_Late ==
    /\ commitG \in {"waiting", "dropped"}
    /\ commit = "closed"
    /\ commitG' = "fanout"
    /\ commitSpawned' = commitIntents
    /\ UNCHANGED <<otherVars, storeVars, svcVars, mIntent, pc, p, call, paymentTx,
                   outcome, preVars, postVars, commit, commitInvoked,
                   commitPanic, logVars, result, persisted>>

\* commit goroutine, case <-commit: one goroutine per registered
\* CommitIntentWorker is started under the read lock
CommitSelectCommit ==
    /\ commitG = "waiting"
    /\ commit = "closed"
    /\ commitG' = "fanout"
    /\ commitSpawned' = commitIntents
    /\ UNCHANGED <<otherVars, storeVars, svcVars, mIntent, pc, p, call, paymentTx,
                   outcome, preVars, postVars, commit, commitInvoked,
                   commitPanic, logVars, result, persisted>>

\* commit goroutine, case <-time.After(commitIntentTimeout)
CommitSelectTimeout ==
    /\ commitG = "waiting"
    /\ commit = "open"
    /\ commitG' = "dropped"
    /\ UNCHANGED <<otherVars, storeVars, svcVars, mIntent, pc, p, call, paymentTx,
                   outcome, preVars, postVars, commit, commitSpawned,
                   commitInvoked, commitPanic, logVars, result, persisted>>

\* the Warn record the receiver of errC logs for a CommitIntent error
CommitWarn(tx, e) ==
    [msg |-> "error on commit intent action", intent |-> tx.Status, err |-> e]

\* what the receiver of errC does with a received result: log it when it is
\* an error
LogCommitErr(tx, e) ==
    IF e # Nil THEN Append(warnLog, CommitWarn(tx, e)) ELSE warnLog

\* the Notification envelope of a transaction
Notification(tx) ==
    [Status |-> tx.Status, TransactionTimestamp |-> tx.Timestamp]

\* mutant: the notifier delivers nothing
Notify_Drops(tx, canCallback, e) ==
    notified

\* Service.notify: a no-op unless the Payment has a complete callback
\* configuration; the notification is delivered when e is nil and not when
\* the notifier returns an error
Notify(tx, canCallback, e) ==
    IF canCallback /\ e = Nil
    THEN Append(notified, Notification(tx))
    ELSE notified

\* the first CommitIntentWorker is the intentNotify of NewService
CommitIntentOf(w, tx, canCallback, e) ==
    IF w = 1 THEN Notify(tx, canCallback, e) ELSE notified

\* mutant: an error of a CommitIntentWorker ends the fan-out
CommitIntentRun_Aborts(w, e) ==
    /\ commitG = "fanout"
    /\ w <= commitSpawned
    /\ Len(commitInvoked[w]) = 0
    /\ commitInvoked' = [commitInvoked EXCEPT ![w] = Append(@, paymentTx)]
    /\ commitErr' = [commitErr EXCEPT ![w] = e]
    /\ warnLog' = LogCommitErr(paymentTx, e)
    /\ notified' = CommitIntentOf(w, paymentTx, p.Callback, e)
    /\ commitG' = IF e # Nil THEN "finished" ELSE commitG
    /\ UNCHANGED <<otherVars, storeVars, svcVars, mIntent, pc, p, call, paymentTx,
                   outcome, preVars, postVars, commit, commitSpawned,
                   commitPanic, result, persisted>>

\* go func(w) { errC <- w.CommitIntent(paymentTx) }: the worker is invoked
\* with the transaction of the intent; its result is received from errC and
\* logged when it is an error
CommitIntentRun(w, e) ==
    /\ commitG = "fanout"
    /\ w <= commitSpawned
    /\ Len(commitInvoked[w]) = 0
    /\ commitInvoked' = [commitInvoked EXCEPT ![w] = Append(@, paymentTx)]
    /\ commitErr' = [commitErr EXCEPT ![w] = e]
    /\ warnLog' = LogCommitErr(paymentTx, e)
    /\ notified' = CommitIntentOf(w, paymentTx, p.Callback, e)
    /\ UNCHANGED <<otherVars, storeVars, svcVars, mIntent, pc, p, call, paymentTx,
                   outcome, preVars, postVars, commit, commitG, commitSpawned,
                   commitPanic, result, persisted>>

\* wg.Wait() returns once every CommitIntent goroutine has delivered
CommitWait ==
    /\ commitG = "fanout"
    /\ \A w \in 1..commitSpawned : Len(commitInvoked[w]) > 0
    /\ commitG' = "finished"
    /\ UNCHANGED <<otherVars, storeVars, svcVars, mIntent, pc, p, call, paymentTx,
                   outcome, preVars, postVars, commit, commitSpawned,
                   commitInvoked, commitPanic, logVars, result, persisted>>

\* ------------------------------------------------------ a second caller
\* A second caller works on the same Payment at the same time.  Its call is
\* followed for a service that has no PreIntentWorker and no
\* PostIntentWorker, where handleIntent has no blocking step; its commit
\* handle is not followed further.
mainVars == <<svcVars, pc, p, call, paymentTx, outcome, preVars, postVars,
              commitVars, result, persisted>>

\* the second caller loads the Payment (Service.PaymentTransaction)
LoadPaymentOther(amount, callback) ==
    /\ pc2 \in {"idle", "done", "stored"}
    /\ pc2' = "loaded"
    /\ p2' = [Status |-> CurrentStatus(txLog), Amount |-> amount,
              Callback |-> callback]
    /\ call2' = NoCall
    /\ result2' = NoResult
    /\ UNCHANGED <<createVars, extVars, storeVars, mainVars, mIntent>>

\* the Intent* method of the second caller up to the read lock of
\* handleIntent
IntentOther(intent, processable, meth, pastDeadline) ==
    /\ pc2 = "loaded"
    /\ preIntents = 0
    /\ postIntents = 0
    /\ call2' = [intent |-> intent, pastDeadline |-> pastDeadline]
    /\ IF ~IntentStatusOk(p2, intent, processable)
       THEN /\ result2' = Failure(ErrIntentNotAllowed)
            /\ pc2' = "done"
            /\ UNCHANGED mIntent
       ELSE IF IntentMethodErr(intent, meth) # Nil
       THEN /\ result2' = Failure(IntentMethodErr(intent, meth))
            /\ pc2' = "done"
            /\ UNCHANGED mIntent
       ELSE IF pastDeadline
       THEN /\ result2' = Failure(ErrIntentTimeout)
            /\ pc2' = "done"
            /\ UNCHANGED mIntent
       ELSE /\ mIntent' = mIntent + 1
            /\ pc2' = "locked"
            /\ UNCHANGED result2
    /\ UNCHANGED <<createVars, extVars, storeVars, mainVars, p2>>

\* handleIntent of the second caller from the commit phase to its return
HandleIntentOtherReturn ==
    /\ pc2 = "locked"
    /\ mIntent' = mIntent - 1
    /\ pc2' = "done"
    /\ result2' = [tx |-> IntentTransaction(p2, call2.intent),
                   commit |-> commitIntents > 0, err |-> Nil]
    /\ UNCHANGED <<createVars, extVars, storeVars, mainVars, p2, call2>>

\* Service.SetPaymentTransaction by the second caller
SetPaymentTransactionOther ==
    /\ pc2 = "done"
    /\ result2.err = Nil
    /\ result2.tx # NilTx
    /\ Len(txLog) < MaxLog
    /\ txLog' = Append(txLog, result2.tx)
    /\ pc2' = "stored"
    /\ UNCHANGED <<createVars, extVars, mainVars, mIntent, p2, call2, result2>>

\* -------------------------------------------------------- CreatePayment
\* Callers create Payments of one project, each in its own DB transaction.
\* The tables are those of paymentd.sql; payment has the unique index ident
\* on (project_id, ident).
Idents == {"ord-1", "ord-2"}
Tables == {"payment", "payment_config", "payment_metadata"}

\* the outcomes of project.ProjectKeyByKeyDB for the callback configuration:
\* no callback configured, a key of the project, no such key, a key of
\* another project, a deadlock (1213), another database error
CallbackChecks == {"none", "ok", "notfound", "mismatch", "deadlock", "dberr"}

\* the outcomes of a SELECT: answered as the tables allow, deadlock (1213),
\* another failure
LookupOutcomes == {"ok", "deadlock", "fail"}

\* the class of a database failure; "none" for an outcome that is not one
DBFailure(out) ==
    CASE out = "deadlock" -> "deadlock"
      [] out \in {"fail", "dberr"} -> "other"
      [] OTHER -> "none"

\* the outcomes of payment_method.PaymentMethodByIDTx in SetPaymentConfig:
\* no method configured, the method with its status, not found, a method of
\* another project (Active or not), a deadlock, another database error
ForeignMethods == {"conflict", "conflict_inactive"}
MethodChecks ==
    MethodLookups \cup ForeignMethods \cup {"none", "deadlock", "dberr"}

\* the outcomes of an INSERT: done as the tables allow, deadlock (1213),
\* another failure
InsertOutcomes == {"ok", "deadlock", "fail"}

intentVars == <<storeVars, mIntent, mainVars, raceVars, extVars>>

\* the payment rows of other DB transactions with the Ident of call t
Conflicts(t) ==
    {u \in Creates \ {t} : /\ "payment" \in dbTx[u].written
                           /\ create[u].ident = create[t].ident}

CommittedConflict(t) == \E u \in Conflicts(t) : dbTx[u].state = "committed"
PendingConflict(t) == \E u \in Conflicts(t) : dbTx[u].state = "open"

\* CreatePayment returns
CreateReturn(t, e) ==
    create' = [create EXCEPT ![t].pc = "returned", ![t].err = e]

\* CreatePayment returns e after a database call that ended as f
CreateFails(t, e, f) ==
    create' = [create EXCEPT ![t].pc = "returned", ![t].err = e,
                             ![t].dbFail = f]

\* the error class of a failed INSERT that is not a duplicate
InsertErr(out) == IF out = "deadlock" THEN ErrDBLockTimeout ELSE ErrDB

\* the caller begins a DB transaction and calls CreatePayment, which checks
\* the callback project key first
CreateBegin(t, ident, cb) ==
    /\ create[t].pc = "idle"
    /\ dbTx' = [dbTx EXCEPT ![t].state = "open"]
    /\ create' = [create EXCEPT
           ![t].ident = ident,
           ![t].pc = IF cb \in {"none", "ok"} THEN "insert" ELSE "returned",
           ![t].dbFail = DBFailure(cb),
           ![t].err = CASE cb \in {"none", "ok"} -> Pending
                        [] cb \in {"notfound", "mismatch"} ->
                               ErrPaymentCallbackConfig
                        [] cb \in {"deadlock", "dberr"} -> ErrDB]
    /\ UNCHANGED intentVars

\* mutant: the payment table has no unique index on the Ident
InsertPayment_NoUniqueIndex(t, out) ==
    /\ create[t].pc = "insert"
    /\ IF out = "ok"
       THEN /\ dbTx' = [dbTx EXCEPT ![t].written = @ \cup {"payment"}]
            /\ create' = [create EXCEPT ![t].pc = "config"]
       ELSE /\ UNCHANGED dbTx
            /\ IF out = "deadlock"
               THEN create' = [create EXCEPT ![t].pc = "returned",
                                             ![t].insErr = "deadlock",
                                             ![t].err = ErrDBLockTimeout]
               ELSE create' = [create EXCEPT ![t].pc = "exists",
                                             ![t].insErr = "other"]
    /\ UNCHANGED intentVars

\* payment.InsertPaymentTx and the check of its error for a deadlock.  An
\* INSERT that meets an uncommitted row with the same Ident waits for the
\* other transaction; one that meets a committed row fails.
InsertPayment(t, out) ==
    /\ create[t].pc = "insert"
    /\ out = "ok" => ~PendingConflict(t)
    /\ IF out = "ok" /\ ~CommittedConflict(t)
       THEN /\ dbTx' = [dbTx EXCEPT ![t].written = @ \cup {"payment"}]
            /\ create' = [create EXCEPT ![t].pc = "config"]
       ELSE /\ UNCHANGED dbTx
            /\ IF out = "deadlock"
               THEN create' = [create EXCEPT ![t].pc = "returned",
                                             ![t].insErr = "deadlock",
                                             ![t].err = ErrDBLockTimeout]
               ELSE create' = [create EXCEPT ![t].pc = "exists",
                                             ![t].insErr = "other"]
    /\ UNCHANGED intentVars

\* what payment.PaymentByProjectIDAndIdentTx gives call t
LookupResult(t, out) ==
    CASE out = "fail" -> "error"
      [] out = "deadlock" -> "deadlock"
      [] OTHER -> IF CommittedConflict(t) THEN "found" ELSE "notfound"

\* mutant: every failed insert is reported as a duplicate Ident
LookupIdent_AlwaysDuplicate(t, out) ==
    /\ create[t].pc = "exists"
    /\ LET found == LookupResult(t, out)
       IN create' = [create EXCEPT ![t].pc = "returned",
                                   ![t].exist = found,
                                   ![t].err = ErrDuplicateIdent]
    /\ UNCHANGED <<dbTx, intentVars>>

\* payment.PaymentByProjectIDAndIdentTx after a failed insert: the committed
\* row with the Ident, not found, or an error.  Every error but not-found is
\* returned as ErrDB, a deadlock included.
LookupIdent(t, out) ==
    /\ create[t].pc = "exists"
    /\ LET found == LookupResult(t, out)
       IN create' = [create EXCEPT ![t].pc = "returned",
                                   ![t].exist = found,
                                   ![t].err = IF found = "found"
                                              THEN ErrDuplicateIdent
                                              ELSE ErrDB]
    /\ UNCHANGED <<dbTx, intentVars>>

\* the error of the payment method check of SetPaymentConfig; Nil when it
\* passes
\* mutant: the Active check comes before the project check
ConfigMethodErr_ActiveFirst(m) ==
    CASE m = "none" -> Nil
      [] m = "deadlock" -> ErrDBLockTimeout
      [] m = MethodNotFound -> ErrPaymentMethodNotFound
      [] m = "dberr" -> ErrDB
      [] m = "conflict_inactive" -> ErrPaymentMethodInactive
      [] m = "conflict" -> ErrPaymentMethodConflict
      [] m \in MethodStatuses ->
             IF Active(m) THEN Nil ELSE ErrPaymentMethodInactive

ConfigMethodErr(m) ==
    CASE m = "none" -> Nil
      [] m = "deadlock" -> ErrDBLockTimeout
      [] m = MethodNotFound -> ErrPaymentMethodNotFound
      [] m = "dberr" -> ErrDB
      [] m \in ForeignMethods -> ErrPaymentMethodConflict
      [] m \in MethodStatuses ->
             IF Active(m) THEN Nil ELSE ErrPaymentMethodInactive

\* Service.SetPaymentConfig as called by CreatePayment
SetPaymentConfig(t, m, out) ==
    /\ create[t].pc = "config"
    /\ IF ConfigMethodErr(m) # Nil
       THEN /\ CreateFails(t, ConfigMethodErr(m), DBFailure(m))
            /\ UNCHANGED dbTx
       ELSE IF out # "ok"
       THEN /\ CreateFails(t, InsertErr(out), DBFailure(out))
            /\ UNCHANGED dbTx
       ELSE /\ dbTx' = [dbTx EXCEPT ![t].written = @ \cup {"payment_config"}]
            /\ create' = [create EXCEPT ![t].pc = "metadata"]
    /\ UNCHANGED intentVars

\* Service.SetPaymentMetadata as called by CreatePayment, and the return of
\* CreatePayment
SetPaymentMetadata(t, hasMetadata, out) ==
    /\ create[t].pc = "metadata"
    /\ IF ~hasMetadata
       THEN /\ CreateReturn(t, Nil)
            /\ UNCHANGED dbTx
       ELSE IF out # "ok"
       THEN /\ CreateFails(t, InsertErr(out), DBFailure(out))
            /\ UNCHANGED dbTx
       ELSE /\ CreateReturn(t, Nil)
            /\ dbTx' = [dbTx EXCEPT
                   ![t].written = @ \cup {"payment_metadata"}]
    /\ UNCHANGED intentVars

\* the caller commits the DB transaction
CommitTx(t) ==
    /\ create[t].pc = "returned"
    /\ dbTx[t].state = "open"
    /\ dbTx' = [dbTx EXCEPT ![t].state = "committed"]
    /\ UNCHANGED <<create, intentVars>>

\* the caller rolls the DB transaction back
RollbackTx(t) ==
    /\ create[t].pc = "returned"
    /\ dbTx[t].state = "open"
    /\ dbTx' = [dbTx EXCEPT ![t].state = "rolledback"]
    /\ UNCHANGED <<create, intentVars>>

\* -------------------------------------------------------- Payment Store
\* One stored Payment and the calls that write and read its rows: the
\* tables payment, payment_config, payment_metadata and payment_transaction
\* of paymentd.sql.
coreVars == <<storeVars, mIntent, mainVars, raceVars, createVars>>
nonStoreVars == <<coreVars, paypalVars, codecVars, sigVars, stripeVars,
                  drainVars,
    initRaceVars,
    urlVars,
    commitGoVars,
    lockVars,
    shutdownVars>>

\* the Payment the transactions of the store belong to
StoredPayment == [Status |-> PaymentStatusNone, Amount |-> 7, Callback |-> FALSE]

\* the transaction an Intent* method built at time ts
TransactionAt(intent, ts) ==
    [IntentTransaction(StoredPayment, intent) EXCEPT !.Timestamp = ts]

\* the rows with the primary key (project_id, payment_id, timestamp) of tx
SameKey(tx) == {r \in payTxs : r.Timestamp = tx.Timestamp}

\* payment.PaymentTransactionCurrentTx: the row whose timestamp is
\* MAX(timestamp) of the Payment, or ErrPaymentTransactionNotFound
PaymentTransactionCurrentTx(rows) ==
    LET latest == {r \in rows :
                      r.Timestamp = CHOOSE m \in {q.Timestamp : q \in rows} :
                                        \A q \in rows : q.Timestamp <= m}
    IN IF rows = {}
       THEN [tx |-> NilTx, err |-> ErrPaymentTransactionNotFound]
       ELSE [tx |-> CHOOSE r \in latest : TRUE, err |-> Nil]

\* CreatePayment succeeded for the Payment and its DB transaction is
\* committed: the payment row, the first Config version and the Metadata,
\* if any, are stored
CreateStoredPayment(hasMetadata) ==
    /\ ~payRow
    /\ payRow' = TRUE
    /\ payVersions' = [config |-> 1,
                       metadata |-> IF hasMetadata THEN 1 ELSE 0]
    /\ storeErr' = Nil
    /\ UNCHANGED <<payTxs, current, nonStoreVars>>

\* Service.SetPaymentConfig on the stored Payment
AppendPaymentConfig(m, out) ==
    /\ payRow
    /\ payVersions.config < MaxVersions
    /\ IF ConfigMethodErr(m) # Nil
       THEN /\ storeErr' = ConfigMethodErr(m)
            /\ UNCHANGED payVersions
       ELSE IF out # "ok"
       THEN /\ storeErr' = InsertErr(out)
            /\ UNCHANGED payVersions
       ELSE /\ storeErr' = Nil
            /\ payVersions' = [payVersions EXCEPT !.config = @ + 1]
    /\ UNCHANGED <<payRow, payTxs, current, nonStoreVars>>

\* Service.SetPaymentMetadata on the stored Payment
AppendPaymentMetadata(hasMetadata, out) ==
    /\ payRow
    /\ payVersions.metadata < MaxVersions
    /\ IF ~hasMetadata
       THEN /\ storeErr' = Nil
            /\ UNCHANGED payVersions
       ELSE IF out # "ok"
       THEN /\ storeErr' = InsertErr(out)
            /\ UNCHANGED payVersions
       ELSE /\ storeErr' = Nil
            /\ payVersions' = [payVersions EXCEPT !.metadata = @ + 1]
    /\ UNCHANGED <<payRow, payTxs, current, nonStoreVars>>

\* Service.SetPaymentTransaction with a transaction of the stored Payment
\* built at time ts.  The INSERT fails without the payment row (foreign key)
\* and on a row with the same timestamp (primary key).
InsertPaymentTransaction(intent, ts, out) ==
    /\ IF out = "ok" /\ payRow /\ SameKey(TransactionAt(intent, ts)) = {}
       THEN /\ payTxs' = payTxs \cup {TransactionAt(intent, ts)}
            /\ storeErr' = Nil
       ELSE /\ storeErr' = InsertErr(out)
            /\ UNCHANGED payTxs
    /\ UNCHANGED <<payRow, payVersions, current, nonStoreVars>>

\* mutant: the current transaction is the row with the least timestamp
PaymentTransaction_Oldest ==
    /\ current' =
           IF payTxs = {}
           THEN [tx |-> NilTx, err |-> ErrPaymentTransactionNotFound]
           ELSE [tx |-> CHOOSE r \in payTxs :
                            \A q \in payTxs : r.Timestamp <= q.Timestamp,
                 err |-> Nil]
    /\ UNCHANGED <<payRow, payTxs, payVersions, storeErr, nonStoreVars>>

\* Service.PaymentTransaction
PaymentTransaction ==
    /\ current' = PaymentTransactionCurrentTx(payTxs)
    /\ UNCHANGED <<payRow, payTxs, payVersions, storeErr, nonStoreVars>>

\* the calls made on the stored Payment: Configs without a payment method,
\* with an Active one and with an unknown one; transactions of IntentOpen
\* and IntentPaid
StoreMethodChecks == {"none", PaymentMethodStatusActive, MethodNotFound}
StoreIntents == {"IntentOpen", "IntentPaid"}

NextStore ==
    \/ \E md \in BOOLEAN : CreateStoredPayment(md)
    \/ \E m \in StoreMethodChecks, out \in InsertOutcomes :
           AppendPaymentConfig(m, out)
    \/ \E md \in BOOLEAN, out \in InsertOutcomes :
           AppendPaymentMetadata(md, out)
    \/ \E k \in StoreIntents, ts \in Times, out \in InsertOutcomes :
           InsertPaymentTransaction(k, ts, out)
    \/ PaymentTransaction

SpecStore == Init /\ [][NextStore]_vars

\* -------------------------------------------------- PayPal driver
\* Driver.InitPayment is called for one Payment, one call after the other;
\* the goroutines a call starts run on while later calls are made.
nonPaypalVars == <<storeVars, preIntents, postIntents, commitIntents, mIntent,
                   mainVars, raceVars, createVars, payStoreVars, codecVars,
                   sigVars, stripeVars, drainVars,
    initRaceVars,
    urlVars,
    commitGoVars,
    lockVars,
    shutdownVars>>

\* the types of the rows of the PayPal transaction table
TransactionTypeCreatePayment == "createPayment"
TransactionTypeCreatePaymentResponse == "createPaymentResponse"
TransactionTypeError == "error"

\* what InitPayment returns
StatusHandler == "StatusHandler"
InitPageHandler == "InitPageHandler"

\* the outcomes of loading the config and building the request: done, the
\* config cannot be read, the config type / a URL / the JSON is invalid
PrepareOutcomes == {"ok", "config", "internal"}

\* the outcomes of the provider request of doInit: no OAuth transport, the
\* client is not authenticated, the POST fails, a status other than 200 and
\* 201, the body cannot be read, the body is not a PayPal payment, done
RequestOutcomes == {"transport", "auth", "post", "status", "body", "decode",
                    "ok"}

\* InitPayment returns res; the deferred function rolls an open DB
\* transaction back unless commit is set
InitReturn(res, fail, tx, dispatched) ==
    /\ initHist' = Append(initHist, [res |-> res, fail |-> fail, tx |-> tx,
                                     dispatched |-> dispatched])
    /\ initCall' = NoInitCall

\* the call and d.ctx.PaymentDB().Begin()
InitBegin(ok) ==
    /\ initCall.pc = "idle"
    /\ Len(initHist) < MaxInit
    /\ IF ok
       THEN /\ initCall' = [pc |-> "lookup", tx |-> "open"]
            /\ UNCHANGED initHist
       ELSE InitReturn(ErrDatabase, "begin", "none", FALSE)
    /\ UNCHANGED <<providerTxs, doInit, errsRecv, ctxDone, nonPaypalVars>>

\* mutant: a stored transaction of the Payment is not looked for
InitLookup_NeverFound(out) ==
    /\ initCall.pc = "lookup"
    /\ IF out # "ok"
       THEN InitReturn(ErrDatabase, "lookup", "rolledback", FALSE)
       ELSE /\ initCall' = [initCall EXCEPT !.pc = "prepare"]
            /\ UNCHANGED initHist
    /\ UNCHANGED <<providerTxs, doInit, errsRecv, ctxDone, nonPaypalVars>>

\* TransactionCurrentByPaymentIDTx and the return of the Status handler for
\* a Payment that has a transaction
InitLookup(out) ==
    /\ initCall.pc = "lookup"
    /\ IF out # "ok"
       THEN InitReturn(ErrDatabase, "lookup", "rolledback", FALSE)
       ELSE IF providerTxs # <<>>
       THEN InitReturn(StatusHandler, "none", "rolledback", FALSE)
       ELSE /\ initCall' = [initCall EXCEPT !.pc = "prepare"]
            /\ UNCHANGED initHist
    /\ UNCHANGED <<providerTxs, doInit, errsRecv, ctxDone, nonPaypalVars>>

\* ConfigByPaymentMethodTx and the construction of the request
InitPrepare(out) ==
    /\ initCall.pc = "prepare"
    /\ CASE out = "config" ->
               InitReturn(ErrDatabase, "config", "rolledback", FALSE)
         [] out = "internal" ->
               InitReturn(ErrInternal, "internal", "rolledback", FALSE)
         [] out = "ok" ->
               /\ initCall' = [initCall EXCEPT !.pc = "insert"]
               /\ UNCHANGED initHist
    /\ UNCHANGED <<providerTxs, doInit, errsRecv, ctxDone, nonPaypalVars>>

\* InsertTransactionTx of the CreatePayment transaction
InitInsert(out) ==
    /\ initCall.pc = "insert"
    /\ IF out # "ok"
       THEN InitReturn(ErrDatabase, "insert", "rolledback", FALSE)
       ELSE /\ initCall' = [initCall EXCEPT !.pc = "commit"]
            /\ UNCHANGED initHist
    /\ UNCHANGED <<providerTxs, doInit, errsRecv, ctxDone, nonPaypalVars>>

\* mutant: the provider call is started before the commit is known to have
\* succeeded
InitCommit_DispatchFirst(ok) ==
    /\ initCall.pc = "commit"
    /\ doInit' = [NoDoInit EXCEPT !.pc = "request"]
    /\ errsRecv' = "waiting"
    /\ IF ok
       THEN /\ providerTxs' = Append(providerTxs, TransactionTypeCreatePayment)
            /\ InitReturn(InitPageHandler, "none", "committed", TRUE)
       ELSE /\ InitReturn(ErrDatabase, "commit", "failed", TRUE)
            /\ UNCHANGED providerTxs
    /\ UNCHANGED <<ctxDone, nonPaypalVars>>

\* tx.Commit(); then the goroutine receiving from errors and doInit are
\* started and the Init page handler is returned
InitCommit(ok) ==
    /\ initCall.pc = "commit"
    /\ IF ok
       THEN /\ providerTxs' = Append(providerTxs, TransactionTypeCreatePayment)
            /\ doInit' = [NoDoInit EXCEPT !.pc = "request"]
            /\ errsRecv' = "waiting"
            /\ InitReturn(InitPageHandler, "none", "committed", TRUE)
       ELSE /\ InitReturn(ErrDatabase, "commit", "failed", FALSE)
            /\ UNCHANGED <<providerTxs, doInit, errsRecv>>
    /\ UNCHANGED <<ctxDone, nonPaypalVars>>

\* Driver.setPayPalErrorResponse: an error transaction is stored
SetPayPalErrorResponse(txs) == Append(txs, TransactionTypeError)

\* doInit up to its first send on errors or to the decoded response: the
\* OAuth transport, the authentication, the POST, the status and the body
DoInitRequest(out) ==
    /\ doInit.pc = "request"
    /\ CASE out \in {"transport", "auth", "post"} ->
               /\ doInit' = [doInit EXCEPT !.pc = "send", !.err = "err",
                                           !.next = "returned"]
               /\ UNCHANGED providerTxs
         [] out \in {"status", "body"} ->
               /\ providerTxs' = SetPayPalErrorResponse(providerTxs)
               /\ doInit' = [doInit EXCEPT !.pc = "send", !.err = ErrHTTP,
                                           !.next = "returned",
                                           !.recorded = TRUE]
         [] out = "decode" ->
               /\ providerTxs' = SetPayPalErrorResponse(providerTxs)
               /\ doInit' = [doInit EXCEPT !.pc = "send", !.err = ErrProvider,
                                           !.next = "store",
                                           !.recorded = TRUE]
         [] out = "ok" ->
               /\ doInit' = [doInit EXCEPT !.pc = "store"]
               /\ UNCHANGED providerTxs
    /\ UNCHANGED <<initCall, initHist, errsRecv, ctxDone, nonPaypalVars>>

\* errors <- err: the send completes when the receiving goroutine takes it,
\* which then logs the error and returns; doInit returns, or goes on after
\* the decode error (there is no return after that send)
DoInitSend ==
    /\ doInit.pc = "send"
    /\ errsRecv = "waiting"
    /\ errsRecv' = "error"
    /\ doInit' = [doInit EXCEPT !.pc = doInit.next, !.reported = TRUE]
    /\ UNCHANGED <<providerTxs, initCall, initHist, ctxDone, nonPaypalVars>>

\* the CreatePaymentResponse transaction: json.Marshal of the links and of
\* the response, InsertTransactionDB, close(errors)
DoInitStore(ok) ==
    /\ doInit.pc = "store"
    /\ IF ok
       THEN /\ providerTxs' =
                   Append(providerTxs, TransactionTypeCreatePaymentResponse)
            /\ doInit' = [doInit EXCEPT !.pc = "returned", !.closed = TRUE]
       ELSE /\ providerTxs' = SetPayPalErrorResponse(providerTxs)
            /\ doInit' = [doInit EXCEPT !.pc = "send", !.err = ErrProvider,
                                        !.next = "returned",
                                        !.recorded = TRUE]
    /\ UNCHANGED <<initCall, initHist, errsRecv, ctxDone, nonPaypalVars>>

\* the receiving goroutine gets nil from the closed channel
RecvClosed ==
    /\ errsRecv = "waiting"
    /\ doInit.closed
    /\ errsRecv' = "nil"
    /\ UNCHANGED <<providerTxs, initCall, initHist, doInit, ctxDone,
                   nonPaypalVars>>

\* the receiving goroutine takes case <-d.ctx.Done()
RecvCancelled ==
    /\ errsRecv = "waiting"
    /\ ctxDone
    /\ errsRecv' = "cancelled"
    /\ UNCHANGED <<providerTxs, initCall, initHist, doInit, ctxDone,
                   nonPaypalVars>>

NextPaypal ==
    \/ \E ok \in BOOLEAN : InitBegin(ok)
    \/ \E out \in LookupOutcomes : InitLookup(out)
    \/ \E out \in PrepareOutcomes : InitPrepare(out)
    \/ \E out \in InsertOutcomes : InitInsert(out)
    \/ \E ok \in BOOLEAN : InitCommit(ok)
    \/ \E out \in RequestOutcomes : DoInitRequest(out)
    \/ DoInitSend
    \/ \E ok \in BOOLEAN : DoInitStore(ok)
    \/ RecvClosed
    \/ RecvCancelled
    \/ CancelContext

SpecPaypal == Init /\ [][NextPaypal]_vars

\* ---------------------------------------------------------- ID codec
\* Payment IDs are IDBits wide; the arithmetic of the encoder is modulo
\* 2^IDBits.
nonCodecVars == <<coreVars, payStoreVars, paypalVars, sigVars, stripeVars,
                  drainVars,
    initRaceVars,
    urlVars,
    commitGoVars,
    lockVars,
    shutdownVars>>

IDModulus == 2 ^ IDBits
IDValues == 0..(IDModulus - 1)
ProjectIDs == {1, 2}

\* bitwise exclusive or of two values of n bits
RECURSIVE BitXor(_, _, _)
BitXor(a, b, n) ==
    IF n = 0 THEN 0
    ELSE (((a % 2) + (b % 2)) % 2)
         + 2 * BitXor(a \div 2, b \div 2, n - 1)

\* the multiplicative inverse of an odd prime modulo 2^IDBits
Inverse(prime) == CHOOSE q \in IDValues : (prime * q) % IDModulus = 1

\* IDEncoder.Hide and IDEncoder.Show
Hide(coder, x) == BitXor((x * coder.prime) % IDModulus, coder.xor, IDBits)
Show(coder, y) ==
    (BitXor(y, coder.xor, IDBits) * Inverse(coder.prime)) % IDModulus

\* NewService: payment.NewIDEncoder with the configured prime and XOR; the
\* service is not created when the encoder reports an error (an even prime)
NewIDEncoder(prime, xor) ==
    /\ idCoder = NoCoder
    /\ prime % 2 = 1
    /\ idCoder' = [prime |-> prime, xor |-> xor]
    /\ UNCHANGED <<idIn, idEnc, idDec, nonCodecVars>>

\* Service.EncodedPaymentID
EncodedPaymentID(id) ==
    /\ idCoder # NoCoder
    /\ idIn' = id
    /\ idEnc' = [id EXCEPT !.PaymentID = Hide(idCoder, id.PaymentID)]
    /\ idDec' = NoID
    /\ UNCHANGED <<idCoder, nonCodecVars>>

\* mutant: the ID is decoded with Hide
DecodedPaymentID_Hides ==
    /\ idCoder # NoCoder
    /\ idEnc # NoID
    /\ idDec' = [idEnc EXCEPT !.PaymentID = Hide(idCoder, idEnc.PaymentID)]
    /\ UNCHANGED <<idCoder, idIn, idEnc, nonCodecVars>>

\* Service.DecodedPaymentID, applied to the encoded ID
DecodedPaymentID ==
    /\ idCoder # NoCoder
    /\ idEnc # NoID
    /\ idDec' = [idEnc EXCEPT !.PaymentID = Show(idCoder, idEnc.PaymentID)]
    /\ UNCHANGED <<idCoder, idIn, idEnc, nonCodecVars>>

NextCodec ==
    \/ \E prime \in IDValues, xor \in IDValues : NewIDEncoder(prime, xor)
    \/ \E pr \in ProjectIDs, x \in IDValues :
           EncodedPaymentID([ProjectID |-> pr, PaymentID |-> x])
    \/ DecodedPaymentID

SpecCodec == Init /\ [][NextCodec]_vars

\* ------------------------------------------------ signature base string
\* CreatePaymentRequest.SignatureBaseString of package api/v1/payment.
\* Strings are made of the letter "a"; the Metadata map is given as its
\* key/value pairs in the order in which the map is iterated.
nonSigVars == <<coreVars, payStoreVars, paypalVars, codecVars, stripeVars,
                drainVars,
    initRaceVars,
    urlVars,
    commitGoVars,
    lockVars,
    shutdownVars>>

RECURSIVE Repeat(_)
Repeat(n) == IF n = 0 THEN "" ELSE "a" \o Repeat(n - 1)

Strs == {Repeat(n) : n \in 1..MaxStrLen}

\* strconv.FormatInt(n, 10)
DigitString(d) ==
    CASE d = 0 -> "0" [] d = 1 -> "1" [] d = 2 -> "2" [] d = 3 -> "3"
      [] d = 4 -> "4" [] d = 5 -> "5" [] d = 6 -> "6" [] d = 7 -> "7"
      [] d = 8 -> "8" [] d = 9 -> "9"

RECURSIVE FormatInt(_)
FormatInt(n) ==
    IF n < 0 THEN "-" \o FormatInt(0 - n)
    ELSE IF n < 10 THEN DigitString(n)
    ELSE FormatInt(n \div 10) \o DigitString(n % 10)

\* the order of the keys (strings of one letter)
KeyLess(k1, k2) == Len(k1) < Len(k2)

\* maputil.WriteSortedMap: key + value of every entry, the keys sorted
RECURSIVE WriteSortedMap(_)
WriteSortedMap(pairs) ==
    IF pairs = <<>> THEN ""
    ELSE LET i == CHOOSE i \in 1..Len(pairs) :
                      \A j \in 1..Len(pairs) :
                          j # i => KeyLess(pairs[i][1], pairs[j][1])
             rest == [j \in 1..(Len(pairs) - 1) |->
                          IF j < i THEN pairs[j] ELSE pairs[j + 1]]
         IN pairs[i][1] \o pairs[i][2] \o WriteSortedMap(rest)

\* the Metadata maps: iteration orders of maps with keys among "a", "aa"
MetadataMaps ==
    {<<>>, <<<<"a", "a">>>>, <<<<"aa", "a">>>>,
     <<<<"a", "a">>, <<"aa", "a">>>>, <<<<"aa", "a">>, <<"a", "a">>>>}

\* the requests that are signed
Requests ==
    [ProjectKey : Strs, Ident : Strs, Amount : {1, 12}, Subunits : {2},
     Currency : {"EUR"}, Country : {"DE"}, PaymentMethodId : {0, 1},
     Locale : {"", "de"}, CallbackURL : {"", "a"}, ReturnURL : {"", "a"},
     Metadata : MetadataMaps, Timestamp : {1}, Nonce : {"n"}]

\* CreatePaymentRequest.SignatureBaseString: the fields in their fixed
\* order without delimiters, the optional ones when they are set
SignatureBaseString(r) ==
    r.ProjectKey \o r.Ident \o FormatInt(r.Amount) \o FormatInt(r.Subunits)
    \o r.Currency \o r.Country
    \o (IF r.PaymentMethodId # 0 THEN FormatInt(r.PaymentMethodId) ELSE "")
    \o (IF r.Locale # "" THEN r.Locale ELSE "")
    \o (IF r.CallbackURL # "" THEN r.CallbackURL ELSE "")
    \o (IF r.ReturnURL # "" THEN r.ReturnURL ELSE "")
    \o WriteSortedMap(r.Metadata)
    \o FormatInt(r.Timestamp) \o r.Nonce

\* a request is signed
SignRequest(r) ==
    /\ req' = r
    /\ baseStr' = SignatureBaseString(r)
    /\ UNCHANGED nonSigVars

NextSig == \E r \in Requests : SignRequest(r)

SpecSig == Init /\ [][NextSig]_vars

\* ------------------------------------------------ Stripe driver config
\* The table provider_stripe_config, written in one DB transaction at a
\* time and read inside it (Tx) or outside it (DB).
nonStripeVars == <<coreVars, payStoreVars, paypalVars, codecVars, sigVars,
                   drainVars,
    initRaceVars,
    urlVars,
    commitGoVars,
    lockVars,
    shutdownVars>>

MethodKeys == {"card"}
SecretKeys == {"sk_1", "sk_2"}

\* the payment methods the configs belong to
StripeMethods == [ProjectID : ProjectIDs, MethodKey : MethodKeys]

\* the rows that InsertConfigTx may be given
StripeConfigs ==
    [ProjectID : ProjectIDs, MethodKey : MethodKeys, Created : Times,
     SecretKey : SecretKeys]

\* mutant: MAX(created) is taken over the whole table
SelectConfigByProjectIDAndMethodKey_GlobalMax(rows, method) ==
    {row \in rows :
        /\ row.ProjectID = method.ProjectID
        /\ row.MethodKey = method.MethodKey
        /\ \A q \in rows : q.Created <= row.Created}

\* the query selectConfigByProjectIDAndMethodKey: the rows of the method
\* whose created is MAX(created) of the rows with their project_id and
\* method_key
SelectConfigByProjectIDAndMethodKey(rows, method) ==
    {row \in rows :
        /\ row.ProjectID = method.ProjectID
        /\ row.MethodKey = method.MethodKey
        /\ \A q \in rows :
               (q.ProjectID = row.ProjectID /\ q.MethodKey = row.MethodKey)
               => q.Created <= row.Created}

\* InsertConfigTx: Prepare and Exec of insertConfig
InsertConfigTx(cfg, ok) ==
    /\ Cardinality(stripeRows \cup stripePending) < MaxVersions
    /\ stripePending' = IF ok THEN stripePending \cup {cfg} ELSE stripePending
    /\ UNCHANGED <<stripeRows, cfgQuery, cfgResult, nonStripeVars>>

\* db.QueryRow and scanConfig over the rows the query sees; QueryRow scans
\* the first row of the result
ScanConfig(rows, method, via, ok) ==
    /\ cfgQuery' = [ProjectID |-> method.ProjectID,
                    MethodKey |-> method.MethodKey, via |-> via,
                    out |-> IF ok THEN "ok" ELSE "fail"]
    /\ IF ~ok
       THEN cfgResult' = [cfg |-> NoConfig, err |-> ErrQuery]
       ELSE IF SelectConfigByProjectIDAndMethodKey(rows, method) = {}
       THEN cfgResult' = [cfg |-> NoConfig, err |-> ErrConfigNotFound]
       ELSE \E row \in SelectConfigByProjectIDAndMethodKey(rows, method) :
                cfgResult' = [cfg |-> row, err |-> Nil]
    /\ UNCHANGED <<stripeRows, stripePending, nonStripeVars>>

\* ConfigByPaymentMethodTx: the query inside the DB transaction
ConfigByPaymentMethodTx(method, ok) ==
    ScanConfig(stripeRows \cup stripePending, method, "Tx", ok)

\* ConfigByPaymentMethodDB: the query outside the DB transaction
ConfigByPaymentMethodDB(method, ok) ==
    ScanConfig(stripeRows, method, "DB", ok)

\* tx.Commit()
CommitStripeTx ==
    /\ stripePending # {}
    /\ stripeRows' = stripeRows \cup stripePending
    /\ stripePending' = {}
    /\ UNCHANGED <<cfgQuery, cfgResult, nonStripeVars>>

NextStripe ==
    \/ \E cfg \in StripeConfigs, ok \in BOOLEAN : InsertConfigTx(cfg, ok)
    \/ \E m \in StripeMethods, ok \in BOOLEAN : ConfigByPaymentMethodTx(m, ok)
    \/ \E m \in StripeMethods, ok \in BOOLEAN : ConfigByPaymentMethodDB(m, ok)
    \/ CommitStripeTx

SpecStripe == Init /\ [][NextStripe]_vars

\* ------------------------------------------------- POST phase drain
\* The channels of the PostIntentWorkers of one call: what each worker
\* still sends, and the goroutine of handleIntent that receives from it.
nonDrainVars == <<coreVars, payStoreVars, paypalVars, codecVars, sigVars,
                  stripeVars,
    initRaceVars,
    urlVars,
    commitGoVars,
    lockVars,
    shutdownVars>>

\* a PostIntentWorker returns a channel without or with a buffer
ChanCaps == {0, 1}

\* a PostIntentWorker that is to send k errors on a channel of capacity cp:
\* todo errors are not yet sent, buf are in the buffer, logged were logged
\* by s.log.Warn, received tells that <-c has returned
PostChannel(k, cp) ==
    [planned |-> k, cap |-> cp, todo |-> k, buf |-> 0, closed |-> FALSE,
     received |-> FALSE, logged |-> 0]

PostPlans ==
    {PostChannel(k, cp) : k \in 0..MaxErrors, cp \in ChanCaps}

\* err, ok := <-c in the receiving goroutine: one receive, logged when
\* ok && err != nil, then wg.Done()
PostReceive(ch, ok) ==
    [ch EXCEPT !.received = TRUE,
               !.logged = IF ok THEN @ + 1 ELSE @]

\* the POST phase of handleIntent: every worker hands back its channel and
\* one receiving goroutine per channel is started
PostIntentDrain(chans) ==
    /\ postDone = <<>>
    /\ postDone' = chans
    /\ UNCHANGED <<postWaited, nonDrainVars>>

\* worker i sends its next error: into the buffer, or directly to the
\* receiving goroutine when that is at <-c
PostWorkerSend(i) ==
    /\ i \in DOMAIN postDone
    /\ postDone[i].todo > 0
    /\ IF postDone[i].buf < postDone[i].cap
       THEN postDone' = [postDone EXCEPT ![i].todo = @ - 1, ![i].buf = @ + 1]
       ELSE /\ postDone[i].buf = 0
            /\ ~postDone[i].received
            /\ postDone' =
                   [postDone EXCEPT
                      ![i] = PostReceive([@ EXCEPT !.todo = @ - 1], TRUE)]
    /\ UNCHANGED <<postWaited, nonDrainVars>>

\* the receiving goroutine of channel i takes a buffered error
PostDrainReceive(i) ==
    /\ i \in DOMAIN postDone
    /\ ~postDone[i].received
    /\ postDone[i].buf > 0
    /\ postDone' =
           [postDone EXCEPT ![i] = PostReceive([@ EXCEPT !.buf = @ - 1], TRUE)]
    /\ UNCHANGED <<postWaited, nonDrainVars>>

\* worker i has sent everything and closes its channel
PostWorkerClose(i) ==
    /\ i \in DOMAIN postDone
    /\ postDone[i].todo = 0
    /\ ~postDone[i].closed
    /\ postDone' = [postDone EXCEPT ![i].closed = TRUE]
    /\ UNCHANGED <<postWaited, nonDrainVars>>

\* the receiving goroutine of channel i finds the channel closed and empty
PostDrainClosed(i) ==
    /\ i \in DOMAIN postDone
    /\ ~postDone[i].received
    /\ postDone[i].closed
    /\ postDone[i].buf = 0
    /\ postDone' = [postDone EXCEPT ![i] = PostReceive(@, FALSE)]
    /\ UNCHANGED <<postWaited, nonDrainVars>>

\* wg.Wait() returns when every receiving goroutine has called wg.Done()
PostWait ==
    /\ postDone # <<>>
    /\ ~postWaited
    /\ \A i \in DOMAIN postDone : postDone[i].received
    /\ postWaited' = TRUE
    /\ UNCHANGED <<postDone, nonDrainVars>>

PostWorkerIDs == 1..MaxWorkers

NextDrain ==
    \/ \E n \in PostWorkerIDs : \E chans \in [1..n -> PostPlans] :
           PostIntentDrain(chans)
    \/ \E i \in PostWorkerIDs : PostWorkerSend(i)
    \/ \E i \in PostWorkerIDs : PostDrainReceive(i)
    \/ \E i \in PostWorkerIDs : PostWorkerClose(i)
    \/ \E i \in PostWorkerIDs : PostDrainClosed(i)
    \/ PostWait

\* the scheduler runs every worker and every receiving goroutine
SpecDrain ==
    /\ Init
    /\ [][NextDrain]_vars
    /\ \A i \in PostWorkerIDs :
           /\ WF_vars(PostWorkerSend(i))
           /\ WF_vars(PostDrainReceive(i))
           /\ WF_vars(PostWorkerClose(i))
           /\ WF_vars(PostDrainClosed(i))
    /\ WF_vars(PostWait)

\* the steps of the doInit goroutine and of the goroutine receiving from
\* errors
DoInitStep ==
    \/ \E out \in RequestOutcomes : DoInitRequest(out)
    \/ DoInitSend
    \/ \E ok \in BOOLEAN : DoInitStore(ok)

RecvStep == RecvClosed \/ RecvCancelled

\* the scheduler runs both goroutines
FairSpecPaypal ==
    /\ SpecPaypal
    /\ WF_vars(DoInitStep)
    /\ WF_vars(RecvStep)

\* -------------------------------------- concurrent InitPayment calls
\* Several callers run Driver.InitPayment on one Payment at the same time,
\* each in its own DB transaction; a transaction sees the rows committed
\* by the others.  The PayPal transactions are keyed by their timestamp.
nonInitRaceVars == <<coreVars, payStoreVars, paypalVars, codecVars, sigVars, stripeVars, drainVars,
    urlVars,
    commitGoVars,
    lockVars,
    shutdownVars>>

\* InitPayment of caller t returns res
RaceReturn(t, res) ==
    initRace' = [initRace EXCEPT ![t].pc = "returned", ![t].res = res]

\* the call and d.ctx.PaymentDB().Begin()
RaceInitBegin(t, ok) ==
    /\ initRace[t].pc = "idle"
    /\ IF ok
       THEN initRace' = [initRace EXCEPT ![t].pc = "lookup"]
       ELSE RaceReturn(t, ErrDatabase)
    /\ UNCHANGED <<raceRows, raceDispatched, nonInitRaceVars>>

\* TransactionCurrentByPaymentIDTx reads the committed rows; the Status
\* handler is returned for a Payment that has a transaction
RaceInitLookup(t, out) ==
    /\ initRace[t].pc = "lookup"
    /\ IF out # "ok"
       THEN RaceReturn(t, ErrDatabase)
       ELSE IF raceRows # {}
       THEN RaceReturn(t, StatusHandler)
       ELSE initRace' = [initRace EXCEPT ![t].pc = "prepare"]
    /\ UNCHANGED <<raceRows, raceDispatched, nonInitRaceVars>>

\* ConfigByPaymentMethodTx and the construction of the request
RaceInitPrepare(t, out) ==
    /\ initRace[t].pc = "prepare"
    /\ CASE out = "config" -> RaceReturn(t, ErrDatabase)
         [] out = "internal" -> RaceReturn(t, ErrInternal)
         [] out = "ok" -> initRace' = [initRace EXCEPT ![t].pc = "insert"]
    /\ UNCHANGED <<raceRows, raceDispatched, nonInitRaceVars>>

\* InsertTransactionTx of the CreatePayment transaction with Timestamp
\* time.Now(); a row with the key of a stored row is refused
RaceInitInsert(t, ts, out) ==
    /\ initRace[t].pc = "insert"
    /\ IF out # "ok" \/ ts \in raceRows
       THEN RaceReturn(t, ErrDatabase)
       ELSE initRace' = [initRace EXCEPT ![t].pc = "commit", ![t].ts = ts]
    /\ UNCHANGED <<raceRows, raceDispatched, nonInitRaceVars>>

\* tx.Commit(), go d.doInit(...) and the return of the Init page handler
RaceInitCommit(t, ok) ==
    /\ initRace[t].pc = "commit"
    /\ IF ok /\ initRace[t].ts \notin raceRows
       THEN /\ raceRows' = raceRows \cup {initRace[t].ts}
            /\ raceDispatched' = raceDispatched + 1
            /\ RaceReturn(t, InitPageHandler)
       ELSE /\ RaceReturn(t, ErrDatabase)
            /\ UNCHANGED <<raceRows, raceDispatched>>
    /\ UNCHANGED nonInitRaceVars

NextInitRace ==
    \/ \E t \in InitCallers, ok \in BOOLEAN : RaceInitBegin(t, ok)
    \/ \E t \in InitCallers, out \in LookupOutcomes : RaceInitLookup(t, out)
    \/ \E t \in InitCallers, out \in PrepareOutcomes :
           RaceInitPrepare(t, out)
    \/ \E t \in InitCallers, ts \in Times, out \in InsertOutcomes :
           RaceInitInsert(t, ts, out)
    \/ \E t \in InitCallers, ok \in BOOLEAN : RaceInitCommit(t, ok)

SpecInitRace == Init /\ [][NextInitRace]_vars

\* ------------------------------------------------ redirect URLs
\* Driver.redirectURLs is run by concurrent InitPayment calls, caller t for
\* the Payment with PaymentID t.  returnURL and cancelURL are &(*d.baseURL),
\* which is the pointer d.baseURL itself: every assignment to their fields
\* is an assignment to the URL all callers share, without synchronisation.
nonURLVars == <<coreVars, payStoreVars, paypalVars, codecVars, sigVars,
    stripeVars, drainVars, initRaceVars,
    commitGoVars,
    lockVars,
    shutdownVars>>

ReturnRoutePath == "/paypal/return"
CancelRoutePath == "/paypal/cancel"
ErrRoute == "mux: route error"

\* the encoder of the payment service the driver uses
DriverIDCoder == [prime |-> 3, xor |-> 5]

\* q.Encode() for q.Set("paymentID", EncodedPaymentID(p.PaymentID()).String())
PaymentIDQuery(id) == "paymentID=" \o FormatInt(Hide(DriverIDCoder, id))

\* url.URL.String() of a URL under the configured host
URLString(u) ==
    "https://pay.example" \o u.Path
        \o (IF u.RawQuery = "" THEN "" ELSE "?" \o u.RawQuery)

\* d.mux.Get("returnHandler").URLPath() and
\* d.mux.Get("cancelHandler").URLPath()
RedirectRoutes(t, ok) ==
    /\ urlCall[t].pc = "idle"
    /\ urlCall' = [urlCall EXCEPT
           ![t].pc = IF ok THEN "returnPath" ELSE "returned",
           ![t].err = IF ok THEN Pending ELSE ErrRoute]
    /\ UNCHANGED <<baseURL, nonURLVars>>

\* returnURL.Path = returnRoute.Path
RedirectReturnPath(t) ==
    /\ urlCall[t].pc = "returnPath"
    /\ baseURL' = [baseURL EXCEPT !.Path = ReturnRoutePath]
    /\ urlCall' = [urlCall EXCEPT ![t].pc = "returnQuery"]
    /\ UNCHANGED nonURLVars

\* returnURL.RawQuery = q.Encode()
RedirectReturnQuery(t) ==
    /\ urlCall[t].pc = "returnQuery"
    /\ baseURL' = [baseURL EXCEPT !.RawQuery = PaymentIDQuery(t)]
    /\ urlCall' = [urlCall EXCEPT ![t].pc = "returnString"]
    /\ UNCHANGED nonURLVars

\* u.ReturnURL = returnURL.String()
RedirectReturnString(t) ==
    /\ urlCall[t].pc = "returnString"
    /\ urlCall' = [urlCall EXCEPT ![t].pc = "cancelPath",
                                  ![t].ReturnURL = URLString(baseURL)]
    /\ UNCHANGED <<baseURL, nonURLVars>>

\* cancelURL.Path = cancelRoute.Path
RedirectCancelPath(t) ==
    /\ urlCall[t].pc = "cancelPath"
    /\ baseURL' = [baseURL EXCEPT !.Path = CancelRoutePath]
    /\ urlCall' = [urlCall EXCEPT ![t].pc = "cancelQuery"]
    /\ UNCHANGED nonURLVars

\* cancelURL.RawQuery = q.Encode()
RedirectCancelQuery(t) ==
    /\ urlCall[t].pc = "cancelQuery"
    /\ baseURL' = [baseURL EXCEPT !.RawQuery = PaymentIDQuery(t)]
    /\ urlCall' = [urlCall EXCEPT ![t].pc = "cancelString"]
    /\ UNCHANGED nonURLVars

\* u.CancelURL = cancelURL.String() and return u, nil
RedirectCancelString(t) ==
    /\ urlCall[t].pc = "cancelString"
    /\ urlCall' = [urlCall EXCEPT ![t].pc = "returned", ![t].err = Nil,
                                  ![t].CancelURL = URLString(baseURL)]
    /\ UNCHANGED <<baseURL, nonURLVars>>

NextURL ==
    \/ \E t \in InitCallers, ok \in BOOLEAN : RedirectRoutes(t, ok)
    \/ \E t \in InitCallers : RedirectReturnPath(t)
    \/ \E t \in InitCallers : RedirectReturnQuery(t)
    \/ \E t \in InitCallers : RedirectReturnString(t)
    \/ \E t \in InitCallers : RedirectCancelPath(t)
    \/ \E t \in InitCallers : RedirectCancelQuery(t)
    \/ \E t \in InitCallers : RedirectCancelString(t)

SpecURL == Init /\ [][NextURL]_vars

\* ------------------------------------------ COMMIT phase goroutines
\* The goroutines of the COMMIT phase of one intent, each with its own
\* position: the waiter, one sender per CommitIntentWorker and the
\* goroutine receiving from errC.  errC is unbuffered and nothing closes it.
nonCommitGoVars == <<coreVars, payStoreVars, paypalVars, codecVars, sigVars,
    stripeVars, drainVars, initRaceVars, urlVars,
    lockVars,
    shutdownVars>>

\* the CommitIntentWorkers of the service: intentNotify and the registered
\* ones
CommitWorkers == 1..MaxRegistered

\* a sender: started, then w.CommitIntent has returned e and the goroutine
\* is at errC <- e, then returned
Sender(at, e) == [at |-> at, err |-> e]

\* handleIntent makes commit and errC and starts the waiter, on a service
\* with n CommitIntentWorkers
CommitGoStart(n) ==
    /\ cgWaiter = "none"
    /\ cgCommit' = "open"
    /\ cgWaiter' = "select"
    /\ cgSenders' = [w \in 1..n |-> Sender("none", Nil)]
    /\ UNCHANGED <<cgDrain, cgWg, cgWarned, nonCommitGoVars>>

\* the caller invokes the CommitIntentFunc: close(commit)
CommitGoInvoke ==
    /\ cgCommit = "open"
    /\ cgCommit' = "closed"
    /\ UNCHANGED <<cgWaiter, cgSenders, cgDrain, cgWg, cgWarned,
                   nonCommitGoVars>>

\* waiter, case <-commit: the fan-out loop is entered
CommitGoFanOut ==
    /\ cgWaiter = "select"
    /\ cgCommit = "closed"
    /\ cgWaiter' = "spawn"
    /\ UNCHANGED <<cgCommit, cgSenders, cgDrain, cgWg, cgWarned,
                   nonCommitGoVars>>

\* one turn of the loop: wg.Add(1) and go func(w) for the next worker w
CommitGoSpawn(w) ==
    /\ cgWaiter = "spawn"
    /\ w \in DOMAIN cgSenders
    /\ cgSenders[w].at = "none"
    /\ \A v \in 1..(w - 1) : cgSenders[v].at # "none"
    /\ cgSenders' = [cgSenders EXCEPT ![w] = Sender("running", Nil)]
    /\ cgWg' = cgWg + 1
    /\ UNCHANGED <<cgCommit, cgWaiter, cgDrain, cgWarned, nonCommitGoVars>>

\* after the loop the receiving goroutine is started and the waiter calls
\* wg.Wait()
CommitGoDrain ==
    /\ cgWaiter = "spawn"
    /\ \A w \in DOMAIN cgSenders : cgSenders[w].at # "none"
    /\ cgDrain' = "receiving"
    /\ cgWaiter' = "wait"
    /\ UNCHANGED <<cgCommit, cgSenders, cgWg, cgWarned, nonCommitGoVars>>

\* waiter, case <-time.After(commitIntentTimeout): the goroutine returns
CommitGoTimeout ==
    /\ cgWaiter = "select"
    /\ cgCommit = "open"
    /\ cgWaiter' = "returned"
    /\ UNCHANGED <<cgCommit, cgSenders, cgDrain, cgWg, cgWarned,
                   nonCommitGoVars>>

\* w.CommitIntent(paymentTx) returns e in sender w
CommitGoWorkerReturn(w, e) ==
    /\ w \in DOMAIN cgSenders
    /\ cgSenders[w].at = "running"
    /\ cgSenders' = [cgSenders EXCEPT ![w] = Sender("sending", e)]
    /\ UNCHANGED <<cgCommit, cgWaiter, cgDrain, cgWg, cgWarned,
                   nonCommitGoVars>>

\* errC <- e of sender w meets err, ok := <-errC: the sender returns
CommitGoReceive(w) ==
    /\ w \in DOMAIN cgSenders
    /\ cgSenders[w].at = "sending"
    /\ cgDrain = "receiving"
    /\ cgSenders' = [cgSenders EXCEPT ![w].at = "returned"]
    /\ cgDrain' = IF cgSenders[w].err # Nil THEN "error" ELSE "nil"
    /\ UNCHANGED <<cgCommit, cgWaiter, cgWg, cgWarned, nonCommitGoVars>>

\* the receiving goroutine calls wg.Done(), logs an error and receives
\* again
CommitGoDone ==
    /\ cgDrain \in {"error", "nil"}
    /\ cgWg' = cgWg - 1
    /\ cgWarned' = IF cgDrain = "error" THEN cgWarned + 1 ELSE cgWarned
    /\ cgDrain' = "receiving"
    /\ UNCHANGED <<cgCommit, cgWaiter, cgSenders, nonCommitGoVars>>

\* wg.Wait() returns and the waiter with it
CommitGoWaitDone ==
    /\ cgWaiter = "wait"
    /\ cgWg = 0
    /\ cgWaiter' = "returned"
    /\ UNCHANGED <<cgCommit, cgSenders, cgDrain, cgWg, cgWarned,
                   nonCommitGoVars>>

CommitGoStep ==
    \/ CommitGoFanOut
    \/ \E w \in CommitWorkers : CommitGoSpawn(w)
    \/ CommitGoDrain
    \/ CommitGoTimeout
    \/ \E w \in CommitWorkers : CommitGoReceive(w)
    \/ CommitGoDone
    \/ CommitGoWaitDone

NextCommitGo ==
    \/ \E n \in CommitWorkers : CommitGoStart(n)
    \/ CommitGoInvoke
    \/ \E w \in CommitWorkers, e \in WorkerResults : CommitGoWorkerReturn(w, e)
    \/ CommitGoStep

\* the scheduler runs the goroutines of the phase; a CommitIntentWorker
\* need not return
SpecCommitGo ==
    /\ Init
    /\ [][NextCommitGo]_vars
    /\ WF_vars(CommitGoStep)

\* ------------------------------------------- the worker registry lock
\* s.mIntent, a sync.RWMutex: handleIntent calls for two Payments and the
\* commit goroutines they start take it for reading, a Register call takes
\* it for writing.  RLock waits while a writer holds or waits for the lock;
\* Lock waits until no reader holds it.
nonLockVars == <<storeVars, preIntents, postIntents, commitIntents, mIntent,
                 callVars, raceVars, createVars, payStoreVars, paypalVars,
                 codecVars, sigVars, stripeVars, drainVars, initRaceVars,
                 urlVars, commitGoVars,
    shutdownVars>>

WorkerKinds == {"pre", "post", "commit"}

\* the positions at which a call or its commit goroutine holds a read lock
Holding == {"pre", "post", "fanout"}

\* handleIntent returns on the path named; the commit handle is not nil
\* on success when there are CommitIntentWorkers
LockReturn(t, path) ==
    [lkCall EXCEPT ![t].pc = "returned", ![t].path = path]

\* s.mIntent.RUnlock() in handleIntent of caller t
RUnlock(lc) == [lc EXCEPT !.runlocks = @ + 1]

\* Register{Pre,Post,Commit}IntentWorker calls s.mIntent.Lock()
RegisterLock(kind) ==
    /\ lkWriter = NoWriter
    /\ lkWorkers.pre + lkWorkers.post + lkWorkers.commit < MaxRegistered
    /\ lkWriter' = [state |-> "waiting", kind |-> kind]
    /\ UNCHANGED <<lkCall, lkReaders, lkWorkers, ctxDone, nonLockVars>>

\* Lock() returns: no reader holds the lock
RegisterLocked ==
    /\ lkWriter.state = "waiting"
    /\ lkReaders = 0
    /\ lkWriter' = [lkWriter EXCEPT !.state = "holding"]
    /\ UNCHANGED <<lkCall, lkReaders, lkWorkers, ctxDone, nonLockVars>>

\* the worker is appended and s.mIntent.Unlock() is called
RegisterAppend ==
    /\ lkWriter.state = "holding"
    /\ lkWorkers' = [lkWorkers EXCEPT ![lkWriter.kind] = @ + 1]
    /\ lkWriter' = NoWriter
    /\ UNCHANGED <<lkCall, lkReaders, ctxDone, nonLockVars>>

\* handleIntent: the deadline check, before the lock is taken
LockDeadline(t, pastDeadline) ==
    /\ lkCall[t].pc = "idle"
    /\ lkCall' = IF pastDeadline
                 THEN LockReturn(t, "deadline")
                 ELSE [lkCall EXCEPT ![t].pc = "rlock"]
    /\ UNCHANGED <<lkReaders, lkWriter, lkWorkers, ctxDone, nonLockVars>>

\* s.mIntent.RLock() in handleIntent, and the start of the PRE phase when
\* there are PreIntentWorkers
LockRLock(t) ==
    /\ lkCall[t].pc = "rlock"
    /\ lkWriter = NoWriter
    /\ lkReaders' = lkReaders + 1
    /\ lkCall' = [lkCall EXCEPT
           ![t].pc = IF lkWorkers.pre > 0 THEN "pre" ELSE "post",
           ![t].rlocks = @ + 1]
    /\ UNCHANGED <<lkWriter, lkWorkers, ctxDone, nonLockVars>>

\* mutant: the PRE error path returns without s.mIntent.RUnlock()
LockPreSelect_KeepsLock(t, how) ==
    /\ lkCall[t].pc = "pre"
    /\ how = "cancel" => ctxDone
    /\ IF how = "timeout"
       THEN /\ lkCall' = [lkCall EXCEPT ![t].pc = "post"]
            /\ UNCHANGED lkReaders
       ELSE IF how = "error"
       THEN /\ lkCall' = LockReturn(t, how)
            /\ UNCHANGED lkReaders
       ELSE /\ lkCall' = [LockReturn(t, how) EXCEPT ![t] = RUnlock(@)]
            /\ lkReaders' = lkReaders - 1
    /\ UNCHANGED <<lkWriter, lkWorkers, ctxDone, nonLockVars>>

\* the select of the PRE phase: cancellation and a received result return
\* after RUnlock, the timeout goes on
LockPreSelect(t, how) ==
    /\ lkCall[t].pc = "pre"
    /\ how = "cancel" => ctxDone
    /\ IF how = "timeout"
       THEN /\ lkCall' = [lkCall EXCEPT ![t].pc = "post"]
            /\ UNCHANGED lkReaders
       ELSE /\ lkCall' = [LockReturn(t, how) EXCEPT ![t] = RUnlock(@)]
            /\ lkReaders' = lkReaders - 1
    /\ UNCHANGED <<lkWriter, lkWorkers, ctxDone, nonLockVars>>

\* the POST and COMMIT phases, s.mIntent.RUnlock() and the return of the
\* transaction and the commit handle
LockSuccess(t) ==
    /\ lkCall[t].pc = "post"
    /\ lkCall' = [LockReturn(t, "success") EXCEPT ![t] = RUnlock(@)]
    /\ lkReaders' = lkReaders - 1
    /\ UNCHANGED <<lkWriter, lkWorkers, ctxDone, nonLockVars>>

\* the commit handle is invoked and the commit goroutine calls
\* s.mIntent.RLock() for the fan-out
LockCommitRLock(t) ==
    /\ lkCall[t].pc = "returned"
    /\ lkCall[t].path = "success"
    /\ lkWriter = NoWriter
    /\ lkReaders' = lkReaders + 1
    /\ lkCall' = [lkCall EXCEPT ![t].pc = "fanout"]
    /\ UNCHANGED <<lkWriter, lkWorkers, ctxDone, nonLockVars>>

\* the senders are started and the commit goroutine calls
\* s.mIntent.RUnlock()
LockCommitRUnlock(t) ==
    /\ lkCall[t].pc = "fanout"
    /\ lkReaders' = lkReaders - 1
    /\ lkCall' = [lkCall EXCEPT ![t].pc = "committed"]
    /\ UNCHANGED <<lkWriter, lkWorkers, ctxDone, nonLockVars>>

PreSelectCases == {"cancel", "error", "timeout"}

\* the steps that do not wait for a caller of the service
LockStep ==
    \/ RegisterLocked
    \/ RegisterAppend
    \/ \E t \in LockCallers : LockRLock(t)
    \/ \E t \in LockCallers, how \in PreSelectCases : LockPreSelect(t, how)
    \/ \E t \in LockCallers : LockSuccess(t)
    \/ \E t \in LockCallers : LockCommitRUnlock(t)

NextLock ==
    \/ \E kind \in WorkerKinds : RegisterLock(kind)
    \/ \E t \in LockCallers, pd \in BOOLEAN : LockDeadline(t, pd)
    \/ \E t \in LockCallers : LockCommitRLock(t)
    \/ CancelContext
    \/ LockStep

\* the scheduler runs every goroutine that can proceed
SpecLock ==
    /\ Init
    /\ [][NextLock]_vars
    /\ WF_vars(LockStep)

\* ------------------------------------------------ the shutdown barrier
\* NewService starts handleBackground, which counts itself in server.Wait,
\* waits for the cancellation of the service context and closes the idle
\* connections of the transport.  The shutdown of the process cancels the
\* context and waits on server.Wait; the process ends when the wait
\* returns, and no goroutine runs after that.
nonShutdownVars == <<storeVars, preIntents, postIntents, commitIntents, mIntent,
                     callVars, raceVars, createVars, payStoreVars, paypalVars,
                     codecVars, sigVars, stripeVars, drainVars, initRaceVars,
                     urlVars, commitGoVars, lockVars>>

\* NewService: s.tr and s.cl are made and the notifier is registered
NewServiceRegister(s) ==
    /\ ~bgReleased
    /\ bgSvc[s] = "new"
    /\ bgSvc' = [bgSvc EXCEPT ![s] = "registered"]
    /\ UNCHANGED <<bgTask, bgWait, bgIdle, bgReleased, ctxDone, nonShutdownVars>>

\* go s.handleBackground()
NewServiceGo(s) ==
    /\ ~bgReleased
    /\ bgSvc[s] = "registered"
    /\ bgSvc' = [bgSvc EXCEPT ![s] = "spawned"]
    /\ bgTask' = [bgTask EXCEPT ![s] = "started"]
    /\ UNCHANGED <<bgWait, bgIdle, bgReleased, ctxDone, nonShutdownVars>>

\* return s, nil
NewServiceReturn(s) ==
    /\ ~bgReleased
    /\ bgSvc[s] = "spawned"
    /\ bgSvc' = [bgSvc EXCEPT ![s] = "returned"]
    /\ UNCHANGED <<bgTask, bgWait, bgIdle, bgReleased, ctxDone, nonShutdownVars>>

\* a request through s.cl leaves a connection idle in s.tr
HTTPRoundTrip(s) ==
    /\ ~bgReleased
    /\ bgSvc[s] = "returned"
    /\ bgIdle[s] < MaxIdle
    /\ bgIdle' = [bgIdle EXCEPT ![s] = @ + 1]
    /\ UNCHANGED <<bgSvc, bgTask, bgWait, bgReleased, ctxDone, nonShutdownVars>>

\* handleBackground: server.Wait.Add(1), the first statement of the
\* goroutine
BackgroundAdd(s) ==
    /\ ~bgReleased
    /\ bgTask[s] = "started"
    /\ bgTask' = [bgTask EXCEPT ![s] = "counted"]
    /\ bgWait' = bgWait + 1
    /\ UNCHANGED <<bgSvc, bgIdle, bgReleased, ctxDone, nonShutdownVars>>

\* case <-s.ctx.Done(): the two log records
BackgroundCtxDone(s) ==
    /\ ~bgReleased
    /\ bgTask[s] = "counted"
    /\ ctxDone
    /\ bgTask' = [bgTask EXCEPT ![s] = "closing"]
    /\ UNCHANGED <<bgSvc, bgWait, bgIdle, bgReleased, ctxDone, nonShutdownVars>>

\* s.tr.CloseIdleConnections()
BackgroundCloseIdle(s) ==
    /\ ~bgReleased
    /\ bgTask[s] = "closing"
    /\ bgTask' = [bgTask EXCEPT ![s] = "closed"]
    /\ bgIdle' = [bgIdle EXCEPT ![s] = 0]
    /\ UNCHANGED <<bgSvc, bgWait, bgReleased, ctxDone, nonShutdownVars>>

\* return, and the deferred server.Wait.Done()
BackgroundDone(s) ==
    /\ ~bgReleased
    /\ bgTask[s] = "closed"
    /\ bgTask' = [bgTask EXCEPT ![s] = "done"]
    /\ bgWait' = bgWait - 1
    /\ UNCHANGED <<bgSvc, bgIdle, bgReleased, ctxDone, nonShutdownVars>>

\* the shutdown, after it cancelled the context: server.Wait.Wait()
\* returns when the counter is zero
ShutdownWait ==
    /\ ~bgReleased
    /\ ctxDone
    /\ bgWait = 0
    /\ bgReleased' = TRUE
    /\ UNCHANGED <<bgSvc, bgTask, bgWait, bgIdle, ctxDone, nonShutdownVars>>

NextShutdown ==
    \/ \E s \in Services : NewServiceRegister(s)
    \/ \E s \in Services : NewServiceGo(s)
    \/ \E s \in Services : NewServiceReturn(s)
    \/ \E s \in Services : HTTPRoundTrip(s)
    \/ \E s \in Services : BackgroundAdd(s)
    \/ \E s \in Services : BackgroundCtxDone(s)
    \/ \E s \in Services : BackgroundCloseIdle(s)
    \/ \E s \in Services : BackgroundDone(s)
    \/ CancelContext
    \/ ShutdownWait

SpecShutdown == Init /\ [][NextShutdown]_vars

\* ---------------------------------------------------------------- Next
CallStep ==
    \/ \E a \in Amounts, cb \in BOOLEAN : LoadPayment(a, cb)
    \/ \E k \in Intents, pr \in BOOLEAN, m \in MethodLookups, pd \in BOOLEAN :
           Intent(k, pr, m, pd)
    \/ SetPaymentTransaction
    \/ InvokeCommit

PipelineStep ==
    \/ PreSelectDone
    \/ PreSelectErr
    \/ PreSelectTimeout
    \/ PostIntentPhase
    \/ CommitPhase

CommitStep ==
    \/ CommitSelectCommit
    \/ CommitSelectTimeout
    \/ \E w \in Workers, e \in WorkerResults : CommitIntentRun(w, e)
    \/ CommitWait

WorkerStep ==
    \/ \E e \in WorkerResults : PreIntentSend(e)
    \/ PreIntentExit
    \/ \E e \in WorkerResults : PostIntentSend(e)

Next ==
    \/ RegisterPreIntentWorker
    \/ RegisterPostIntentWorker
    \/ RegisterCommitIntentWorker
    \/ CancelContext
    \/ CallStep
    \/ PipelineStep
    \/ CommitStep
    \/ WorkerStep

Spec == Init /\ [][Next]_vars

\* the scheduler runs every goroutine of the service: a pending select, the
\* remaining phases of handleIntent and the commit goroutines make progress
FairSpec ==
    /\ Spec
    /\ WF_vars(PipelineStep)
    /\ WF_vars(CommitStep)

\* PreIntentWorkers that send their one result without watching done: no
\* worker leaves by PreIntentExit, and a worker whose send can proceed sends
PreSendStep == \E e \in WorkerResults : PreIntentSend(e)

NextPreSend ==
    \/ RegisterPreIntentWorker
    \/ RegisterPostIntentWorker
    \/ RegisterCommitIntentWorker
    \/ CancelContext
    \/ CallStep
    \/ PipelineStep
    \/ CommitStep
    \/ PreSendStep
    \/ \E e \in WorkerResults : PostIntentSend(e)

SpecPreSend ==
    /\ Init
    /\ [][NextPreSend]_vars
    /\ WF_vars(PipelineStep)
    /\ WF_vars(PreSendStep)

\* two callers on one Payment, on a service with the notifier as its only
\* worker
OtherStep ==
    \/ \E a \in Amounts, cb \in BOOLEAN : LoadPaymentOther(a, cb)
    \/ \E k \in Intents, pr \in BOOLEAN, m \in MethodLookups, pd \in BOOLEAN :
           IntentOther(k, pr, m, pd)
    \/ HandleIntentOtherReturn
    \/ SetPaymentTransactionOther

NextRace ==
    \/ \E a \in Amounts, cb \in BOOLEAN : LoadPayment(a, cb)
    \/ \E k \in Intents, pr \in BOOLEAN, m \in MethodLookups, pd \in BOOLEAN :
           Intent(k, pr, m, pd)
    \/ SetPaymentTransaction
    \/ PostIntentPhase
    \/ CommitPhase
    \/ CommitSelectTimeout
    \/ OtherStep

SpecRace == Init /\ [][NextRace]_vars

\* concurrent CreatePayment calls
NextCreate ==
    \/ \E t \in Creates, i \in Idents, cb \in CallbackChecks :
           CreateBegin(t, i, cb)
    \/ \E t \in Creates, out \in InsertOutcomes : InsertPayment(t, out)
    \/ \E t \in Creates, out \in LookupOutcomes : LookupIdent(t, out)
    \/ \E t \in Creates, m \in MethodChecks, out \in InsertOutcomes :
           SetPaymentConfig(t, m, out)
    \/ \E t \in Creates, md \in BOOLEAN, out \in InsertOutcomes :
           SetPaymentMetadata(t, md, out)
    \/ \E t \in Creates : CommitTx(t)
    \/ \E t \in Creates : RollbackTx(t)

SpecCreate == Init /\ [][NextCreate]_vars

TypeOK ==
    /\ Len(txLog) <= MaxLog
    /\ mIntent \in 0..2
    /\ pc \in {"idle", "loaded", "pre_wait", "post", "commit", "done"}
    /\ preReturned <= preStarted
    /\ postDrained <= postStarted

\* ------------------------------------------------------------ vocabulary
\* the allowed-transition table of the intents
AllowedTransition(status, intent) ==
    \/ intent = "IntentOpen" /\ status = PaymentStatusNone
    \/ intent = "IntentCancel" /\ status = PaymentStatusOpen
    \/ intent = "IntentAuthorized" /\ status = PaymentStatusOpen
    \/ intent = "IntentPaid" /\ status \in {PaymentStatusOpen,
                                           PaymentStatusAuthorized}

\* the call returned (PaymentTransaction, commit handle, nil)
Succeeded ==
    /\ result.err = Nil
    /\ result.tx = paymentTx
    /\ result.tx # NilTx
    /\ result.commit

\* no PostIntent or CommitIntent worker was started for the call
NoPostOrCommit ==
    /\ postStarted = 0
    /\ commitG = "none"
    /\ commitInvoked = NoInvocations

\* no PreIntent, PostIntent or CommitIntent worker was started for the call
NoWorkerInvoked ==
    /\ preStarted = 0
    /\ done = "none"
    /\ NoPostOrCommit

\* ---------------------------------------------------------------- C1
\* C1: an Intent* call whose (status, intent) pair is not in the allowed
\* transition table returns ErrIntentNotAllowed with no PaymentTransaction
\* and no commit handle.  The code does not check the status in IntentOpen.
C1_TransitionTable ==
    (/\ pc = "done"
     /\ call.intent \in Intents
     /\ ~AllowedTransition(p.Status, call.intent))
    => result = Failure(ErrIntentNotAllowed)

\* ---------------------------------------------------------------- C2
\* C2: when the PRE select resolves while a worker's error is in the result
\* channel, the timeout has not fired and the context is not cancelled, the
\* call returns that error, no PaymentTransaction and no commit handle, and
\* done is closed.
C2_PreVeto ==
    [][(/\ pc = "pre_wait"
        /\ Len(c) > 0
        /\ Head(c) \in WorkerErrs
        /\ ~ctxDone
        /\ pc' # "pre_wait")
       => (/\ pc' = "done"
           /\ result' = Failure(Head(c))
           /\ done' = "closed"
           /\ NoPostOrCommit')]_vars

C2_Witness ==
    /\ pc = "done"
    /\ outcome = "veto"
    /\ result.err \in WorkerErrs
    /\ preStarted = 2
    /\ ~ctxDone

\* ---------------------------------------------------------------- C3
\* C3: no CommitIntentWorker is invoked more than once for an intent, each
\* invocation gets the transaction the intent returned, and once the commit
\* handle has been invoked (once) before the commit timeout, every
\* registered CommitIntentWorker is eventually invoked.
C3_CommitFanOut ==
    /\ [](\A w \in Workers :
            /\ Len(commitInvoked[w]) <= 1
            /\ Len(commitInvoked[w]) = 1
                   => (commitInvoked[w][1] = result.tx /\ Succeeded))
    /\ (commit = "closed" /\ commitG = "waiting")
          ~> (\/ commitPanic
              \/ \A w \in 1..commitIntents : Len(commitInvoked[w]) = 1)

C3_Witness ==
    /\ commitG = "finished"
    /\ ~commitPanic
    /\ commitIntents = 2
    /\ \A w \in 1..2 : commitInvoked[w] = <<result.tx>>

\* ---------------------------------------------------------------- C4
\* C4: once the commit goroutine has taken its timeout case, it stays
\* dropped and no CommitIntentWorker is invoked for the intent, also when
\* the commit handle is invoked afterwards.
C4_CommitTimeout ==
    /\ [][commitG = "dropped" => commitG' \in {"dropped", "none"}]_vars
    /\ [](commitG = "dropped" => commitInvoked = NoInvocations)

C4_Witness ==
    commitG = "dropped" /\ commit = "closed"

\* ---------------------------------------------------------------- C5
\* C5: an Intent* call that returns a nil error returns a PaymentTransaction
\* and a commit handle.  The code returns (nil, nil, nil) when a
\* PreIntentWorker sends nil.
C5_ResultWellFormed ==
    (pc = "done" /\ result.err = Nil) => (result.tx # NilTx /\ result.commit)

\* ---------------------------------------------------------------- C6
\* C6: with PreIntentWorkers registered, a PRE select that resolves with no
\* result in the channel and the context not cancelled resolves by the
\* timeout: done is closed and the intent goes on to the POST phase; a call
\* that left the PRE phase by the timeout returns (PaymentTransaction,
\* commit handle, nil).
C6_ConsentByTimeout ==
    /\ [][(/\ pc = "pre_wait"
           /\ Len(c) = 0
           /\ ~ctxDone
           /\ pc' # "pre_wait")
          => (/\ pc' = "post"
              /\ outcome' = "timeout"
              /\ done' = "closed"
              /\ result' = NoResult)]_vars
    /\ []((pc = "done" /\ outcome = "timeout") => Succeeded)

C6_Witness ==
    /\ pc = "done"
    /\ outcome = "timeout"
    /\ done = "closed"
    /\ Succeeded

C8_CancelAlwaysAborts ==
    [][(pc \in {"pre_wait", "post", "commit"} /\ ctxDone /\ pc' = "done")
       => (result' = Failure(ErrCanceled) /\ NoPostOrCommit')]_vars

\* C8 amended: a PRE select that resolves while the context is cancelled and
\* no worker result is in the channel aborts with the cancellation error,
\* closes done and starts no POST or COMMIT worker.
C8_CancelInPre ==
    /\ [][(/\ pc = "pre_wait"
           /\ ctxDone
           /\ Len(c) = 0
           /\ pc' # "pre_wait")
          => (/\ pc' = "done"
              /\ result' = Failure(ErrCanceled)
              /\ done' = "closed")]_vars
    /\ [](outcome = "cancel" => NoPostOrCommit)

C8_Witness ==
    /\ pc = "done"
    /\ outcome = "cancel"
    /\ result = Failure(ErrCanceled)
    /\ done = "closed"

\* ---------------------------------------------------------------- C9
\* C9: the transaction log changes only in SetPaymentTransaction: no step of
\* an Intent* call, of a worker or of the commit goroutine writes to it.
C9_PipelineDoesNotPersist ==
    [][txLog' # txLog => SetPaymentTransaction]_vars

C9_Witness ==
    /\ commitG = "finished"
    /\ Succeeded
    /\ ~persisted
    /\ txLog = <<>>

CommitErrCount == Cardinality({w \in Workers : commitErr[w] \in WorkerErrs})

\* C11: an error returned by a CommitIntentWorker is logged (one Warn record
\* per error), the rows of the transaction log are never removed or altered,
\* and every other registered CommitIntentWorker is still invoked.
C11_CommitErrorsLogged ==
    /\ [](/\ Len(warnLog) = CommitErrCount
          /\ \A i \in 1..Len(warnLog) :
                 warnLog[i] = CommitWarn(paymentTx, warnLog[i].err))
    /\ [][/\ Len(txLog') >= Len(txLog)
          /\ SubSeq(txLog', 1, Len(txLog)) = txLog]_vars
    /\ (CommitErrCount > 0)
          ~> (\A w \in 1..commitIntents : Len(commitInvoked[w]) = 1)

C11_Witness ==
    /\ commitG = "finished"
    /\ commitErr[1] \in WorkerErrs
    /\ commitInvoked[2] = <<result.tx>>
    /\ persisted
    /\ txLog = <<result.tx>>
    /\ Len(warnLog) >= 1

\* ---------------------------------------------------------------- C12
\* C12: invoking the commit handle of an intent two or more times does not
\* panic, and no CommitIntentWorker is invoked more than once.  The code
\* closes the commit channel on every invocation; the second close panics.
C12_CommitHandleIdempotent ==
    /\ ~commitPanic
    /\ \A w \in Workers : Len(commitInvoked[w]) <= 1

\* ---------------------------------------------------------------- C14
\* C14: IntentPaid on a Payment whose current status is Authorized is not
\* rejected with ErrIntentNotAllowed.  The code of IntentPaid accepts the
\* status Open only.
C14_AuthorizedToPaid ==
    (/\ pc = "done"
     /\ call.intent = "IntentPaid"
     /\ p.Status = PaymentStatusAuthorized)
    => result.err # ErrIntentNotAllowed

\* ---------------------------------------------------------------- C15
\* the status and the amount the transaction of a successful intent has
PolicyTransaction(intent, amount) ==
    CASE intent = "IntentOpen" ->
             [Status |-> PaymentStatusOpen, Amount |-> 0 - amount]
      [] intent = "IntentCancel" ->
             [Status |-> PaymentStatusCancelled, Amount |-> 0]
      [] intent = "IntentAuthorized" ->
             [Status |-> PaymentStatusAuthorized, Amount |-> 0]
      [] intent = "IntentPaid" ->
             [Status |-> PaymentStatusPaid, Amount |-> amount]

\* C15: the PaymentTransaction a successful intent returns has the target
\* status and the amount -Payment.Amount for IntentOpen, 0 for IntentCancel
\* and IntentAuthorized, +Payment.Amount for IntentPaid; the Payment given to
\* the call is left unchanged by it.
C15_AmountPolicy ==
    /\ []((pc = "done" /\ result.err = Nil /\ result.tx # NilTx)
          => /\ result.tx.Status =
                    PolicyTransaction(call.intent, p.Amount).Status
             /\ result.tx.Amount =
                    PolicyTransaction(call.intent, p.Amount).Amount)
    /\ [][pc' # "loaded" => p' = p]_vars

C15_Witness ==
    /\ pc = "done"
    /\ Succeeded
    /\ call.intent = "IntentOpen"
    /\ p.Amount = 7
    /\ result.tx.Amount = -7

\* ---------------------------------------------------------------- C16
\* the error the method requirement gives an intent on a found method
MethodRequirement(intent, st) ==
    IF intent = "IntentOpen"
    THEN (IF st = PaymentMethodStatusActive
          THEN Nil ELSE ErrPaymentMethodInactive)
    ELSE (IF st = PaymentMethodStatusDisabled
          THEN ErrPaymentMethodDisabled ELSE Nil)

\* C16: IntentOpen on a processable Payment returns ErrPaymentMethodInactive
\* unless the method is Active; IntentCancel, IntentAuthorized and IntentPaid
\* on a Payment in Open return ErrPaymentMethodDisabled when the method is
\* Disabled and are not rejected for the method when it is Inactive or
\* Active; a rejected call returns no PaymentTransaction and no commit handle
\* and starts no worker.
C16_MethodRequirement ==
    [][\A k \in Intents, m \in MethodStatuses, pd \in BOOLEAN :
          (/\ Intent(k, TRUE, m, pd)
           /\ k # "IntentOpen" => p.Status = PaymentStatusOpen)
          => IF MethodRequirement(k, m) # Nil
             THEN /\ pc' = "done"
                  /\ result' = Failure(MethodRequirement(k, m))
                  /\ NoWorkerInvoked'
             ELSE result'.err \notin {ErrPaymentMethodInactive,
                                      ErrPaymentMethodDisabled}]_vars

C16_Witness ==
    /\ pc = "done"
    /\ call.intent = "IntentPaid"
    /\ p.Status = PaymentStatusOpen
    /\ result = Failure(ErrPaymentMethodDisabled)
    /\ preIntents > 0
    /\ NoWorkerInvoked

\* ---------------------------------------------------------------- C13
\* C13: of two Intent* calls on the same Payment at most one is in flight
\* at a time, and two calls that both observed the status Open of the same
\* latest transaction never both return a PaymentTransaction.  handleIntent
\* takes a shared read lock only and the status is the one the caller read.
C13_PerPaymentSerialization ==
    /\ mIntent <= 1
    /\ ~(/\ pc = "done"
         /\ pc2 = "done"
         /\ p.Status = PaymentStatusOpen
         /\ p2.Status = PaymentStatusOpen
         /\ CurrentStatus(txLog) = PaymentStatusOpen
         /\ ~persisted
         /\ call.intent = "IntentPaid"
         /\ call2.intent = "IntentCancel"
         /\ result.tx # NilTx
         /\ result2.tx # NilTx)

\* ---------------------------------------------------------------- C17
\* IntentOpen has succeeded on a Payment with a complete callback
\* configuration, its transaction is stored and the commit handle has been
\* invoked
OpenCommitted ==
    /\ call.intent = "IntentOpen"
    /\ Succeeded
    /\ p.Callback
    /\ persisted
    /\ commit = "closed"

\* one notification has been delivered, with the status open of the
\* committed transaction and a TransactionTimestamp that is not 0
OpenNotified ==
    /\ Len(notified) = 1
    /\ notified[1].Status = PaymentStatusOpen
    /\ notified[1].Status = CurrentStatus(txLog)
    /\ notified[1].TransactionTimestamp # 0

CallsWith(i) == {t \in Creates : create[t].ident = i}

\* the payment rows with an Ident that are committed
PaymentRows(i) ==
    {t \in CallsWith(i) : /\ "payment" \in dbTx[t].written
                          /\ dbTx[t].state = "committed"}

\* every call made with the Ident has returned success or DuplicateIdent and
\* its DB transaction is committed
AllSettled(i) ==
    /\ CallsWith(i) # {}
    /\ \A t \in CallsWith(i) :
           /\ create[t].pc = "returned"
           /\ create[t].err \in {Nil, ErrDuplicateIdent}
           /\ dbTx[t].state = "committed"

\* C18: two Payments with the same (ProjectID, Ident) are never stored, and
\* when concurrent CreatePayment calls with the same Ident have all returned
\* success or DuplicateIdent and their DB transactions are committed, exactly
\* one Payment row exists, exactly one call succeeded and every other call
\* returned DuplicateIdent.
C18_CreateIdempotent ==
    \A i \in Idents :
        /\ Cardinality(PaymentRows(i)) <= 1
        /\ AllSettled(i)
           => /\ Cardinality(PaymentRows(i)) = 1
              /\ Cardinality({t \in CallsWith(i) : create[t].err = Nil}) = 1

C18_Witness ==
    /\ AllSettled("ord-1")
    /\ Cardinality(CallsWith("ord-1")) = 2
    /\ \E t \in Creates : create[t].err = ErrDuplicateIdent
    /\ \E t \in Creates : create[t].err = Nil

\* ---------------------------------------------------------------- C19
\* C19: when the payment insert of CreatePayment fails, the call returns
\* DuplicateIdent if and only if the failure is not a deadlock and a Payment
\* with the same (ProjectID, Ident) is found; a deadlock gives
\* DatabaseLockTimeout, and every other failure gives Database, also when
\* the lookup of the duplicate fails.
C19_DuplicateIdentClass ==
    \A t \in Creates :
        (create[t].pc = "returned" /\ create[t].insErr # "none")
        => /\ create[t].err = ErrDuplicateIdent
                <=> (create[t].insErr = "other" /\ create[t].exist = "found")
           /\ create[t].insErr = "deadlock"
                => create[t].err = ErrDBLockTimeout
           /\ (create[t].insErr = "other" /\ create[t].exist # "found")
                => create[t].err = ErrDB

C19_Witness ==
    \E t \in Creates :
        /\ create[t].pc = "returned"
        /\ create[t].insErr = "other"
        /\ create[t].exist = "error"
        /\ create[t].err = ErrDB
        /\ CommittedConflict(t)

\* ---------------------------------------------------------------- C20
\* C20: when CreatePayment has returned, either it succeeded and the Payment
\* row and its Config version are written in the DB transaction, or it
\* returned an error and nothing is written in the DB transaction.  The code
\* returns the error of SetPaymentConfig or SetPaymentMetadata with the
\* rows inserted before it still in the transaction.
C20_CreateAtomic ==
    \A t \in Creates :
        create[t].pc = "returned"
        => IF create[t].err = Nil
           THEN {"payment", "payment_config"} \subseteq dbTx[t].written
           ELSE dbTx[t].written = {}

\* ---------------------------------------------------------------- C21
\* what a looked-up payment method is: it exists, it belongs to the project
\* of the Payment, it is Active
MethodExists(m) == m \in MethodStatuses \cup ForeignMethods
MethodOfProject(m) == m \in MethodStatuses
MethodIsActive(m) == m \in {PaymentMethodStatusActive, "conflict"}
MethodLookedUp(m) == m \in MethodLookups \cup ForeignMethods

ConfigAppended(t) ==
    /\ "payment_config" \notin dbTx[t].written
    /\ "payment_config" \in dbTx'[t].written

\* C21: SetPaymentConfig with a PaymentMethodID appends a Config version only
\* if the method exists, belongs to the project of the Payment and is Active;
\* a method lookup that the database answers returns PaymentMethodNotFound,
\* PaymentMethodConflict
\* or PaymentMethodInactive, in that order of checks, and appends nothing.
\* Without a PaymentMethodID the Config is appended with no method check.
C21_MethodOwnership ==
    [][\A t \in Creates : create[t].pc = "config" /\ create'[t] # create[t] =>
       \A m \in MethodChecks, out \in InsertOutcomes :
         SetPaymentConfig(t, m, out) =>
           /\ ConfigAppended(t) /\ m # "none" =>
                 MethodExists(m) /\ MethodOfProject(m) /\ MethodIsActive(m)
           /\ MethodLookedUp(m) /\ ~MethodExists(m) =>
                 /\ create'[t].err = ErrPaymentMethodNotFound
                 /\ ~ConfigAppended(t)
           /\ MethodExists(m) /\ ~MethodOfProject(m) =>
                 /\ create'[t].err = ErrPaymentMethodConflict
                 /\ ~ConfigAppended(t)
           /\ MethodExists(m) /\ MethodOfProject(m) /\ ~MethodIsActive(m) =>
                 /\ create'[t].err = ErrPaymentMethodInactive
                 /\ ~ConfigAppended(t)
           /\ m = "none" /\ out = "ok" => ConfigAppended(t)
    ]_vars

\* a Payment row was inserted and its Config was rejected for a method of
\* another project
C21_Witness ==
    \E t \in Creates :
        /\ create[t].pc = "returned"
        /\ create[t].err = ErrPaymentMethodConflict
        /\ "payment" \in dbTx[t].written
        /\ "payment_config" \notin dbTx[t].written

\* ---------------------------------------------------------------- C22
\* C22: a service call that met a database failure returns
\* DatabaseLockTimeout when the failure is a deadlock (1213) and Database for
\* every other failure, in the callback-key lookup, the payment insert, the
\* duplicate-Ident lookup, the method lookup and the config and metadata
\* inserts; a failed insert whose Ident is found stored is the duplicate
\* of C19.  The code returns Database for a deadlock in the callback-key
\* lookup and in the duplicate-Ident lookup.
C22_DBErrorPromotion ==
    \A t \in Creates :
        create[t].pc = "returned"
        => /\ create[t].dbFail = "deadlock" => create[t].err = ErrDBLockTimeout
           /\ create[t].dbFail = "other" => create[t].err = ErrDB
           /\ create[t].insErr = "deadlock" => create[t].err = ErrDBLockTimeout
           /\ create[t].exist = "deadlock" => create[t].err = ErrDBLockTimeout
           /\ create[t].exist = "error" => create[t].err = ErrDB
           /\ (create[t].insErr = "other" /\ create[t].exist = "notfound")
                => create[t].err = ErrDB

\* ---------------------------------------------------------------- C23
\* the transactions of the stored Payment with the greatest timestamp
LatestRows == {r \in payTxs : \A q \in payTxs : q.Timestamp <= r.Timestamp}

\* C23: PaymentTransaction(p) returns the inserted transaction with the
\* maximum Timestamp, with its Status, or the not-found error and a
\* transaction without a valid Status when none has been inserted; an
\* append of a Config or Metadata version changes no transaction, and no two
\* transactions of the Payment share a timestamp.
C23_CurrentStatus ==
    /\ [][PaymentTransaction =>
             IF payTxs = {}
             THEN /\ current'.err = ErrPaymentTransactionNotFound
                  /\ current'.tx.Status \notin Statuses \ {PaymentStatusNone}
             ELSE /\ current'.err = Nil
                  /\ current'.tx \in LatestRows
                  /\ current'.tx.Status \in Statuses \ {PaymentStatusNone}]_vars
    /\ [][payVersions' # payVersions
             => /\ payTxs' = payTxs
                /\ PaymentTransactionCurrentTx(payTxs')
                      = PaymentTransactionCurrentTx(payTxs)]_vars
    /\ [](\A r, q \in payTxs : r.Timestamp = q.Timestamp => r = q)
    /\ [](Cardinality(LatestRows) <= 1)

\* two transactions and a second Config version are stored and the read
\* returned the transaction with the greater timestamp
C23_Witness ==
    /\ Cardinality(payTxs) >= 2
    /\ storeErr = Nil
    /\ current.err = Nil
    /\ current.tx \in LatestRows
    /\ payVersions.config = 2

\* ---------------------------------------------------------------- C24
\* the CreatePayment rows of the PayPal transaction table
CreatePaymentRows ==
    {i \in 1..Len(providerTxs) : providerTxs[i] = TransactionTypeCreatePayment}

\* the InitPayment calls that initialized the Payment
Initialized == {i \in 1..Len(initHist) : initHist[i].res = InitPageHandler}

\* C24: an InitPayment call made after one that initialized the Payment
\* returns the Status handler when the database answers it (ErrDatabase
\* when Begin or the lookup of the transaction fails), commits no provider
\* transaction and starts no provider call; the transaction table never
\* holds more than one CreatePayment row and holds exactly one once the
\* Payment is initialized.
C24_InitIdempotent ==
    /\ \A i \in Initialized : \A j \in (i + 1)..Len(initHist) :
           /\ initHist[j].fail = "none" => initHist[j].res = StatusHandler
           /\ initHist[j].fail # "none"
                => /\ initHist[j].fail \in {"begin", "lookup"}
                   /\ initHist[j].res = ErrDatabase
           /\ ~initHist[j].dispatched
           /\ initHist[j].tx # "committed"
    /\ Cardinality(CreatePaymentRows) <= 1
    /\ Initialized # {} => Cardinality(CreatePaymentRows) = 1

\* the second of two calls got the Status handler
C24_Witness ==
    /\ Len(initHist) = 2
    /\ initHist[1].res = InitPageHandler
    /\ initHist[2].res = StatusHandler
    /\ Cardinality(CreatePaymentRows) = 1

\* ---------------------------------------------------------------- C25
\* doInit is started in this step
Dispatched == doInit.pc = "none" /\ doInit'.pc # "none"

\* C25: doInit is started only in the step of InitPayment in which the
\* commit of the DB transaction holding the CreatePayment transaction
\* succeeds; a call whose insert or commit failed starts no provider call,
\* and the provider request is made only with the CreatePayment row stored.
C25_CommitBeforeProviderCall ==
    /\ [][Dispatched
             => /\ initCall.pc = "commit"
                /\ Len(initHist') = Len(initHist) + 1
                /\ initHist'[Len(initHist')].tx = "committed"
                /\ Len(providerTxs') = Len(providerTxs) + 1
                /\ providerTxs'[Len(providerTxs')]
                      = TransactionTypeCreatePayment]_vars
    /\ [](\A i \in 1..Len(initHist) :
             initHist[i].fail \in {"insert", "commit"}
             => ~initHist[i].dispatched /\ initHist[i].res = ErrDatabase)
    /\ [](doInit.pc # "none" => CreatePaymentRows # {})
    /\ [](Cardinality({i \in 1..Len(initHist) : initHist[i].dispatched})
             = IF doInit.pc = "none" THEN 0 ELSE 1)

\* a call whose commit failed was followed by one that committed and
\* started the provider call
C25_Witness ==
    /\ Len(initHist) = 2
    /\ initHist[1].fail = "commit"
    /\ initHist[2].dispatched
    /\ doInit.pc = "store"

\* ---------------------------------------------------------------- C26
\* C26: when doInit reports an error on the errors channel, it has recorded
\* an error transaction before.  The code sends the error of the OAuth
\* transport, of the authentication and of the POST without recording one.
C26_ProviderErrorAudit ==
    (doInit.pc = "send" \/ doInit.reported)
    => /\ doInit.recorded
       /\ \E i \in 1..Len(providerTxs) : providerTxs[i] = TransactionTypeError

\* ---------------------------------------------------------------- C27
\* C27: decoding an encoded payment ID gives the ID back, the encoding is
\* injective on the PaymentID part, and the ProjectID part is the same in
\* the ID, the encoded ID and the decoded ID.
C27_CodecRoundTrip ==
    /\ idDec # NoID => idDec = idIn
    /\ idEnc # NoID => idEnc.ProjectID = idIn.ProjectID
    /\ idCoder # NoCoder
       => \A x, y \in IDValues :
              Hide(idCoder, x) = Hide(idCoder, y) => x = y

\* an ID that the encoding changes was encoded and decoded
C27_Witness ==
    /\ idDec # NoID
    /\ idEnc.PaymentID # idIn.PaymentID
    /\ idCoder.prime > 1
    /\ idCoder.xor > 0

\* ---------------------------------------------------------------- C28
\* the entries of a Metadata map
Entries(pairs) == {pairs[i] : i \in 1..Len(pairs)}

\* two requests have the same values in every signed field
SameFields(r1, r2) ==
    /\ [r1 EXCEPT !.Metadata = <<>>] = [r2 EXCEPT !.Metadata = <<>>]
    /\ Entries(r1.Metadata) = Entries(r2.Metadata)

\* C28: a request that differs from the signed request in a signed field
\* has a different signature base string, and a request with the same
\* field values has the same base string whatever the iteration order of
\* its Metadata.  The code concatenates the fields without delimiters, so
\* requests that split the same text differently over adjacent fields
\* share their base string.
C28_BaseStringInjective ==
    req # NoRequest
    => \A r \in Requests :
           IF SameFields(r, req)
           THEN SignatureBaseString(r) = baseStr
           ELSE SignatureBaseString(r) # baseStr

\* ---------------------------------------------------------------- C29
\* the rows of the queried (ProjectID, MethodKey) that the query sees
QueriedRows ==
    {row \in (IF cfgQuery.via = "Tx" THEN stripeRows \cup stripePending
            ELSE stripeRows) :
        row.ProjectID = cfgQuery.ProjectID /\ row.MethodKey = cfgQuery.MethodKey}

ConfigQueried ==
    \E m \in StripeMethods :
        ConfigByPaymentMethodTx(m, TRUE) \/ ConfigByPaymentMethodDB(m, TRUE)

\* C29: a config query the database answers returns an inserted row of the
\* queried (ProjectID, MethodKey) with the greatest created among the rows
\* of that pair the query sees (those inserted in its DB transaction or
\* committed), or ErrConfigNotFound when there is none; rows of other
\* pairs have no influence.
C29_VersionedConfig ==
    [][ConfigQueried =>
         LET seen == {row \in (IF cfgQuery'.via = "Tx"
                             THEN stripeRows \cup stripePending
                             ELSE stripeRows) :
                         /\ row.ProjectID = cfgQuery'.ProjectID
                         /\ row.MethodKey = cfgQuery'.MethodKey}
         IN IF seen = {}
            THEN cfgResult' = [cfg |-> NoConfig, err |-> ErrConfigNotFound]
            ELSE /\ cfgResult'.err = Nil
                 /\ cfgResult'.cfg \in seen
                 /\ \A q \in seen : q.Created <= cfgResult'.cfg.Created
    ]_vars

\* a query returned the newest of several config rows of its method
C29_Witness ==
    /\ cfgResult.err = Nil
    /\ cfgResult.cfg \in QueriedRows
    /\ Cardinality(QueriedRows) >= 2
    /\ \E q \in QueriedRows : q.Created < cfgResult.cfg.Created

\* ---------------------------------------------------------------- C30
\* C30: every error a PostIntentWorker sends on its channel is received
\* and logged: a worker that is to send k >= 1 errors eventually has sent
\* all of them, and all k were logged.
C30_PostErrorsDrained ==
    \A i \in PostWorkerIDs :
        (i \in DOMAIN postDone /\ postDone[i].planned >= 1)
        ~> (/\ i \in DOMAIN postDone
            /\ postDone[i].todo = 0
            /\ postDone[i].logged = postDone[i].planned)

\* ---------------------------------------------------------------- C31
\* doInit has sent the decode error and has not returned after it
DecodeFailed == doInit.recorded /\ doInit.next = "store"

ResponseStored ==
    \E i \in DOMAIN providerTxs :
        providerTxs[i] = TransactionTypeCreatePaymentResponse

\* C31: when the response body cannot be decoded, doInit reports the error
\* and stops: no CreatePaymentResponse transaction is appended for that
\* response.
C31_DecodeShortCircuit ==
    DecodeFailed => ~ResponseStored /\ doInit.pc \in {"send", "returned"}

\* ---------------------------------------------------------------- C32
DroppedLogged ==
    \E i \in DOMAIN warnLog : warnLog[i].msg = "commit intent dropped"

\* C32: when the commit handle was not invoked within commitIntentTimeout,
\* a "commit intent dropped" record is logged for the intent and nothing
\* is notified.
C32_DroppedCommitLogged ==
    commitG = "dropped" => DroppedLogged /\ notified = <<>>

\* ---------------------------------------------------------------- C33
\* C33: concurrent InitPayment calls on a Payment without a provider
\* transaction commit at most one CreatePayment transaction and start at
\* most one provider call.
C33_ConcurrentInitOnce ==
    Cardinality(raceRows) <= 1 /\ raceDispatched <= 1

\* ---------------------------------------------------------------- C34
\* the URL of a route for the Payment id, built from the configured base
RedirectURL(path, id) ==
    URLString([ConfiguredBaseURL EXCEPT !.Path = path,
                                        !.RawQuery = PaymentIDQuery(id)])

OwnRedirectURLs ==
    \A t \in InitCallers :
        urlCall[t].err = Nil =>
            /\ urlCall[t].ReturnURL = RedirectURL(ReturnRoutePath, t)
            /\ urlCall[t].CancelURL = RedirectURL(CancelRoutePath, t)

\* C34: whatever the interleaving of redirectURLs calls for different
\* Payments, the return URL and the cancel URL built for a Payment carry
\* its own encoded PaymentID and the path of the return and of the cancel
\* route, and the configured base URL of the driver stays as it was.
C34_RedirectURLs ==
    OwnRedirectURLs /\ baseURL = ConfiguredBaseURL

\* ---------------------------------------------------------------- C35
\* C35: on every path the doInit goroutine eventually returns; it never
\* stays blocked on a send on the errors channel.
C35_DoInitTerminates ==
    (doInit.pc = "request") ~> (doInit.pc = "returned")

\* ---------------------------------------------------------------- C36
WorkersReturned ==
    /\ cgWaiter = "wait"
    /\ \A w \in DOMAIN cgSenders : cgSenders[w].at \in {"sending", "returned"}

SendersReturned ==
    \A w \in DOMAIN cgSenders : cgSenders[w].at = "returned"

\* C36: once the commit handle was invoked and every CommitIntentWorker
\* has returned, the waiter, every sender and the goroutine receiving from
\* errC eventually terminate; and when the handle is not invoked in time
\* the waiter terminates.
C36_CommitGoroutinesTerminate ==
    /\ (cgCommit = "closed" /\ WorkersReturned)
          ~> (/\ cgWaiter = "returned"
              /\ SendersReturned
              /\ cgDrain = "returned")
    /\ (cgWaiter = "select") ~> (cgWaiter \in {"spawn", "returned"})

\* ---------------------------------------------------------------- C37
\* C37: with any number of PreIntentWorkers that each send one result
\* without watching done, every worker's send eventually completes,
\* however the PRE phase ended; and a result sent after done was closed
\* does not change the outcome of the intent.
C37_PreSendsComplete ==
    /\ (preStarted > 0) ~> (preReturned = preStarted)
    /\ [][done = "closed" /\ PreSendStep => UNCHANGED <<outcome, result>>]_vars

\* ---------------------------------------------------------------- C38
LockReleased(t) ==
    lkCall[t].pc = "returned" => lkCall[t].runlocks = lkCall[t].rlocks

\* C38 as stated: handleIntent has released the read lock exactly once on
\* every return path, the deadline failure included.
C38_ReleasedOnceOnEveryPath ==
    \A t \in LockCallers :
        lkCall[t].pc = "returned" => lkCall[t].runlocks = 1

\* C38: handleIntent holds the read lock only while it runs: it takes it
\* once after the deadline check and releases it once on the PRE error, on
\* cancellation and on success, and neither takes nor releases it on the
\* deadline failure; the read locks held are those of the running calls
\* and of the commit goroutines in their fan-out, a Register call holds
\* the lock alone, and a Register call that waits for the lock eventually
\* completes.
C38_LockDiscipline ==
    /\ [](\A t \in LockCallers :
            /\ LockReleased(t)
            /\ lkCall[t].pc = "returned" =>
                   lkCall[t].rlocks = IF lkCall[t].path = "deadline"
                                      THEN 0 ELSE 1)
    /\ [](lkReaders = Cardinality({t \in LockCallers :
                                      lkCall[t].pc \in Holding}))
    /\ [](lkWriter.state = "holding" => lkReaders = 0)
    /\ (lkWriter.state = "waiting") ~> (lkWriter = NoWriter)

\* the calls for both Payments are in their PRE phase at the same time,
\* after a PreIntentWorker was registered
C38_Witness ==
    /\ \A t \in LockCallers : lkCall[t].pc = "pre"
    /\ lkReaders = 2
    /\ lkWorkers.pre > 0

\* ---------------------------------------------------------------- C39
\* C39: when the wait barrier of the process is released, every background
\* task that NewService started has completed: it has closed the idle
\* connections of its transport and returned.
C39_ShutdownBarrier ==
    bgReleased =>
        \A s \in Services :
            bgTask[s] # "none" => bgTask[s] = "done" /\ bgIdle[s] = 0
====
